---- MODULE Spec2Model ----
(***************************************************************************)
(* A model of the jsh embedded shell: the foreground launcher              *)
(* (JSRuntime.exec / exec0, engine.go and engine_unix.go), the statement   *)
(* interpreter (Shell.Run / Shell.process, native/shell/shell.go) and the  *)
(* command-line parser (parseCommand and its helpers).                     *)
(***************************************************************************)
EXTENDS Integers, Sequences, FiniteSets, TLC

(***************************************************************************)
(* Bounds of the model.                                                    *)
(***************************************************************************)
\* launch frames that can exist at once (the code never needs more than one)
MaxInFlight == 2
\* largest exit status a child returns from a normal exit (the OS allows 0..255)
MaxExit == 1
\* runtime.exec calls made by one script
MaxCalls == 2
\* pipeline stages in one input line of the shell
MaxStages == 3
\* characters in a line given to the parser
MaxLen == 4
\* characters between the quotes of a quoted argument
MaxQuoted == 2
\* characters in a pipeline stage given to tokenize and parsePipeline
MaxStageLen == 5
\* the most listeners one event type of one object is given
MaxSubscribers == 2
\* goroutines that call Start
MaxStarts == 2
\* timers set
MaxTimers == 2
\* publish calls made
MaxDispatches == 3
\* ClearTimeout calls
MaxClears == 2
\* characters in a mount point given to Mount or Unmount
MaxPathLen == 3
\* entries of the mount table
MaxMounts == 2
\* shutdown hooks the program registers while it runs
MaxHooks == 2
\* goroutines that call Stop
MaxStoppers == 2
\* stop functions registered with the loop
MaxStopFns == 2
\* functions other goroutines send to the loop
MaxPosts == 2
\* capacity of the events channel (NewEventLoop makes it with 100)
EventsCap == 2

(***************************************************************************)
(* Signals, process groups and values.                                     *)
(***************************************************************************)
\* the three job-control signals of exec0
Sigs == {"SIGTTOU", "SIGTTIN", "SIGTSTP"}

\* what a signal's disposition can be: Go's default, ignored (signal.Ignore),
\* or delivered to a channel (signal.Notify)
Disp == {"default", "ignore", "notify"}

\* syscall.Getpgrp(): the shell's own process group
ShellPgid == 1

\* pids of children are distinct from the shell's process group
PidBase == 10

\* ex.Process.Pid of the child started by launch frame l; with Setpgid and
\* Pgid 0 it is also the child's process group
ChildPid(l) == PidBase + l

Slots == 1..MaxInFlight

\* goja values returned by exec: a number or a Go error wrapped as a value
IntVal(n) == [kind |-> "int", n |-> n]
ErrVal == [kind |-> "err", n |-> 0]
NoVal == [kind |-> "none", n |-> 0]

\* the ways a started child can end, as ex.Wait() reports them
WaitOutcomes ==
    {[end |-> "exit", status |-> s] : s \in 0..MaxExit}
    \cup {[end |-> "signal", status |-> 0], [end |-> "error", status |-> 0]}

VARIABLES
    sig,        \* process-wide disposition of each job-control signal
    termFg,     \* foreground process group of the controlling terminal
    launch,     \* launch frames: one record per exec0 activation
    shPc,       \* where the VM goroutine is
    calls,      \* runtime.exec calls the script has made
    variant,    \* which revision of shell.go runs: "v1" (lines 1-160) or "v3" (275-433)
    cmd,        \* the Command parsed from the current line
    si,         \* index of the current statement in process
    pi,         \* index of the current pipeline stage in the statement
    ret,        \* what process returned: exit code and continueShell
    runVal,     \* what Shell.Run returned (-1: it has not returned)
    ran,        \* positions <<si, pi>> of the stages process has run for this line
    lastVal,    \* value returned by the last stage that process ran
    input,      \* the line given to the parser, a sequence of characters
    parsed,     \* the Command parseCommand returned for it
    words,      \* the strings tokenize, splitStatements or splitPipes returned
    pipeline,   \* the Pipeline parsePipeline returned
    ppc,        \* "input" before the parser has run, then the function applied
    rev,        \* which revision of the event code runs: "loop" (the EventLoop
                \* type) or "global" (the package-level functions)
    subscribers, \* the listeners of each object and event type
    subCall,    \* the last call made on subscribers, and what was there before
    globalEventStopOnce, \* the Once of the running loop: 0 is nil, g the one
                         \* made by the Start call of goroutine g
    globalEventStopCh,   \* the stop channel, numbered likewise
    globalEventCloseCh,  \* the close channel, numbered likewise
    closedChs,  \* the channels closed so far: <<"stop", g>>, <<"close", g>>
    doneOnces,  \* the Onces whose Do has run
    events,     \* the functions in the events channel
    posted,     \* how many functions other goroutines have sent
    log,        \* the functions the loop has run, in order
    globalEventStops, \* the registered stop functions
    stopLog,    \* the stop functions called, in order
    starter,    \* the goroutines calling Start
    stopper,    \* the goroutines calling Stop
    panicked,   \* "none", or the panic that ended the process
    dispatcher, \* the functions a publish call made outside the loop still
                \* has to send
    dispatched, \* the listeners each publish call found, in the order of the calls
    timers,     \* the timers SetTimeout made
    runner,     \* the goroutine calling JSRuntime.Run
    shutdownHooks, \* jr.shutdownHooks
    hookLog,    \* the shutdown hooks called, in order
    fsType,     \* which mount filesystem is used: "MountFS" or "FS"
    mounts,     \* the mount table: pairs <<mount point, filesystem>>
    mountCall   \* the last Mount or Unmount call, what it returned, and the
                \* table before it

shellVars == <<variant, cmd, si, pi, ret, runVal, ran, lastVal>>
parserVars == <<input, parsed, words, pipeline, ppc>>
subVars == <<rev, subscribers, subCall>>
chanVars ==
    <<globalEventStopOnce, globalEventStopCh, globalEventCloseCh, closedChs, doneOnces>>
queueVars == <<events, posted, log>>
stopFnVars == <<globalEventStops, stopLog>>
loopVars == <<chanVars, queueVars, stopFnVars, starter, stopper, panicked>>
dispatchVars == <<dispatcher, dispatched>>
runVars == <<runner, shutdownHooks, hookLog>>
mountVars == <<fsType, mounts, mountCall>>
extVars == <<dispatchVars, timers, runVars, mountVars>>
runtimeVars == <<subVars, loopVars, extVars>>
frontVars == <<sig, termFg, launch, shPc, calls, shellVars, parserVars>>
vars == <<frontVars, runtimeVars>>

NoLaunch ==
    [phase |-> "none", shellPgid |-> 0, childPgid |-> 0, start |-> "none",
     grant |-> "none", wait |-> "none", status |-> 0, restore |-> "none",
     result |-> NoVal,
     ioctls |-> 0, sigBefore |-> [s \in Sigs |-> "default"], termBefore |-> 0]

\* mutant of SignalIgnore: the signals are left as they are
SignalIgnoreNothing(d) == d

\* signal.Ignore(SIGTTOU); signal.Ignore(SIGTTIN); signal.Ignore(SIGTSTP)
SignalIgnore(d) == [s \in Sigs |-> "ignore"]

\* signal.Reset(...): undoes Notify and Ignore, back to the default behaviour
SignalReset(d) == [s \in Sigs |-> "default"]

\* the frame a new call to exec0 gets
FreeSlots == {l \in Slots : launch[l].phase = "none"}
NewSlot == CHOOSE l \in FreeSlots : \A m \in FreeSlots : l <= m

\* exec0, lines 17-31: streams, tty fd, shell pgid, SysProcAttr
Exec0Enter(l) ==
    launch' = [launch EXCEPT ![l] =
        [NoLaunch EXCEPT !.phase = "created", !.shellPgid = ShellPgid,
                         !.sigBefore = sig, !.termBefore = termFg]]

\* JSRuntime.exec, lines 261-272: no exec support, no builder, or the builder
\* fails: an error value is returned and exec0 is never entered
ExecRefused(l) ==
    launch' = [launch EXCEPT ![l] =
        [NoLaunch EXCEPT !.phase = "returned", !.start = "refused",
                         !.result = ErrVal, !.sigBefore = sig,
                         !.termBefore = termFg]]

\* exec0, lines 33-41: ignore the three signals, register the deferred reset
Exec0Ignore(l) ==
    /\ launch[l].phase = "created"
    /\ sig' = SignalIgnore(sig)
    /\ launch' = [launch EXCEPT ![l].phase = "ignored"]
    /\ UNCHANGED <<runtimeVars, termFg, shPc, calls, shellVars, parserVars>>

\* mutant of StartFailed: a start failure falls through to the restore
StartFailedRestores(l) ==
    /\ launch' = [launch EXCEPT ![l].phase = "waited", ![l].start = "failed",
                                ![l].result = ErrVal]
    /\ UNCHANGED <<sig, termFg>>

\* ex.Start() fails: return the error; the deferred reset runs
StartFailed(l) ==
    /\ sig' = SignalReset(sig)
    /\ launch' = [launch EXCEPT ![l].phase = "returned", ![l].start = "failed",
                                ![l].result = ErrVal]
    /\ UNCHANGED termFg

\* ex.Start() succeeds: the child runs in its own process group
StartOk(l) ==
    /\ launch' = [launch EXCEPT ![l].phase = "started", ![l].start = "ok",
                                ![l].childPgid = ChildPid(l)]
    /\ UNCHANGED <<sig, termFg>>

\* exec0, lines 43-48
Exec0Start(l) ==
    /\ launch[l].phase = "ignored"
    /\ (StartOk(l) \/ StartFailed(l))
    /\ UNCHANGED <<runtimeVars, shPc, calls, shellVars, parserVars>>

\* ioctl(ttyFd, TIOCSPGRP, &pgid): on success the terminal's foreground
\* group becomes pgid, on failure nothing changes
Tiocspgrp(pgid, ok) == IF ok THEN pgid ELSE termFg

\* mutant of GrantNextPhase: a failed grant ends the launch
GrantNextPhaseAbort(ok) == IF ok THEN "granted" ELSE "returned"

\* after the granting ioctl control goes on to ex.Wait(): a failure is only
\* printed
GrantNextPhase(ok) == "granted"

\* exec0, lines 49-57: give the terminal to the child; a failure is printed
Exec0Grant(l) ==
    /\ launch[l].phase = "started"
    /\ \E ok \in BOOLEAN :
        /\ termFg' = Tiocspgrp(launch[l].childPgid, ok)
        /\ launch' = [launch EXCEPT ![l].phase = GrantNextPhase(ok),
                         ![l].grant = IF ok THEN "ok" ELSE "failed",
                         ![l].ioctls = @ + 1]
    /\ UNCHANGED <<runtimeVars, sig, shPc, calls, shellVars, parserVars>>

\* exec0, lines 60-69: the result of ex.Wait()
WaitResult(w) ==
    CASE w.end = "exit" -> IntVal(w.status)
      [] w.end = "signal" -> IntVal(-1)
      [] OTHER -> ErrVal

\* mutant of WaitNextPhase: a wait error returns at once
WaitNextPhaseEarlyReturn(w) == IF w.end = "error" THEN "returned" ELSE "waited"

\* after ex.Wait() control goes on to the restore, whatever Wait returned
WaitNextPhase(w) == "waited"

\* exec0, lines 59-69: block until the child ends
Exec0Wait(l) ==
    /\ launch[l].phase = "granted"
    /\ \E w \in WaitOutcomes :
        launch' = [launch EXCEPT ![l].phase = WaitNextPhase(w), ![l].wait = w.end,
                                 ![l].status = w.status,
                                 ![l].result = WaitResult(w)]
    /\ UNCHANGED <<runtimeVars, sig, termFg, shPc, calls, shellVars, parserVars>>

\* mutant of RestoreTarget: the restore names the child's group again
RestoreTargetChild(l) == launch[l].childPgid

\* the group the restoring request names: the recorded shellPgid
RestoreTarget(l) == launch[l].shellPgid

\* exec0, lines 71-81: give the terminal back to the shell's group
Exec0Restore(l) ==
    /\ launch[l].phase = "waited"
    /\ \E ok \in BOOLEAN :
        /\ termFg' = Tiocspgrp(RestoreTarget(l), ok)
        /\ launch' = [launch EXCEPT ![l].phase = "restored",
                         ![l].restore = IF ok THEN "ok" ELSE "failed",
                         ![l].ioctls = @ + 1]
    /\ UNCHANGED <<runtimeVars, sig, shPc, calls, shellVars, parserVars>>

\* exec0, line 82 and the deferred function of lines 37-41
Exec0Return(l) ==
    /\ launch[l].phase = "restored"
    /\ sig' = SignalReset(sig)
    /\ launch' = [launch EXCEPT ![l].phase = "returned"]
    /\ UNCHANGED <<runtimeVars, termFg, shPc, calls, shellVars, parserVars>>

\* one statement of some exec0 activation
LaunchStep ==
    \E l \in Slots :
        \/ Exec0Ignore(l)
        \/ Exec0Start(l)
        \/ Exec0Grant(l)
        \/ Exec0Wait(l)
        \/ Exec0Restore(l)
        \/ Exec0Return(l)

(***************************************************************************)
(* A script calling runtime.exec (doExec -> exec -> exec0).                *)
(***************************************************************************)
\* the script calls runtime.exec(...): JSRuntime.exec refuses or enters
\* exec0; the call is synchronous, the VM goroutine is inside it
ScriptExec ==
    /\ shPc = "script"
    /\ calls < MaxCalls
    /\ FreeSlots # {}
    /\ (ExecRefused(NewSlot) \/ Exec0Enter(NewSlot))
    /\ shPc' = "scriptExec"
    /\ calls' = calls + 1
    /\ UNCHANGED <<runtimeVars, sig, termFg, shellVars, parserVars>>

\* exec has returned its value to the script
ScriptExecReturn ==
    /\ shPc = "scriptExec"
    /\ \E l \in Slots :
        /\ launch[l].phase = "returned"
        /\ launch' = [launch EXCEPT ![l] = NoLaunch]
    /\ shPc' = "script"
    /\ UNCHANGED <<runtimeVars, sig, termFg, calls, shellVars, parserVars>>

(***************************************************************************)
(* The statement interpreter: Shell.Run and Shell.process.                 *)
(***************************************************************************)
\* verbs of the input lines: the built-ins and one external command
Verbs == {"exit", "quit", "pwd", "repl", "ls"}

\* the separators a Statement's Operator records
Operators == {";", "&&"}

Pipelines == {[Command |-> v, Args |-> <<>>] : v \in Verbs}

\* statement sequences of at most budget stages, every statement with at
\* least one pipeline
RECURSIVE StmtSeqs(_)
StmtSeqs(budget) ==
    {<<>>} \cup
    UNION {{<<[Pipelines |-> p, Operator |-> o]>> \o rest :
                p \in [1..k -> Pipelines], o \in Operators,
                rest \in StmtSeqs(budget - k)} : k \in 1..budget}

\* the operator trailing the last statement is always empty
FixLast(s) ==
    IF s = <<>> THEN s ELSE [s EXCEPT ![Len(s)].Operator = ""]

\* the Commands parseCommand can hand to process
Lines == {[Statements |-> FixLast(s)] : s \in StmtSeqs(MaxStages)}

\* the first revision of process has only the exit/quit case and the default
\* case: every other verb is an external command there, and "ls" stands for
\* them; the last revision has cases of its own for "repl" and "pwd"
VerbsOf(v) == IF v = "v1" THEN {"exit", "quit", "ls"} ELSE Verbs

LinesOf(v) ==
    {c \in Lines :
        \A s \in 1..Len(c.Statements) :
            \A p \in 1..Len(c.Statements[s].Pipelines) :
                c.Statements[s].Pipelines[p].Command \in VerbsOf(v)}

NoCmd == [Statements |-> <<>>]
NoRet == [code |-> 0, alive |-> TRUE]
NoParse == [Raw |-> <<>>, Statements |-> <<>>]

\* the statement and the stage process is at
CurStmt == cmd.Statements[si]
CurPipe == CurStmt.Pipelines[pi]
AtStage == shPc = "process" /\ si <= Len(cmd.Statements)

\* mutant of ExitVerbs: "quit" is not recognised
ExitVerbsOnlyExit == {"exit"}

\* case "exit", "quit"
ExitVerbs == {"exit", "quit"}

\* mutant of StopOnError: the test names the wrong operator
StopOnErrorSemicolon(stmt) == stmt.Operator = ";"

\* mutant of StopOnError: the flag is declared outside the loop over the
\* statements and is never cleared once an "&&" statement has set it
StopOnErrorSticky(stmt) ==
    \E k \in 1..si : cmd.Statements[k].Operator = "&&"

\* stopOnError, as process sets it for the statement
StopOnError(stmt) == stmt.Operator = "&&"

\* the verbs each revision hands to the runtime: v3 runs "repl" through
\* execString and the rest through exec, and answers "pwd" itself; v1 has
\* only the default case
Launched(v, verb) ==
    /\ verb \notin ExitVerbs
    /\ v = "v3" => verb # "pwd"

\* v3: val.Export().(int64) panics unless the value is a number
Panics(v, val) == v = "v3" /\ val.kind # "int"

\* the exit code process derives from the value of exec: v1 starts from -1
\* and takes the value when it is an int64
ExitCode(v, val) == IF val.kind = "int" THEN val.n ELSE -1

\* mutant of NextPos: the inner loop leaves the statement after one stage
NextPosNextStatement == <<si + 1, 1>>

\* the range loops of process: the position after <<si, pi>>
NextPos ==
    IF pi < Len(CurStmt.Pipelines) THEN <<si, pi + 1>> ELSE <<si + 1, 1>>

\* mutant of AfterCallPc: exec0 runs on a goroutine of its own and process
\* does not wait for it
AfterCallPcAsync == "process"

\* where the caller of exec is while the launch runs: the call is
\* synchronous, process goes on only when exec has returned
AfterCallPc == "exec"

\* Shell.Run: ed.Read returned a line; process parses it
ShellRead ==
    /\ shPc = "prompt"
    /\ \E c \in LinesOf(variant) : cmd' = c
    /\ si' = 1 /\ pi' = 1
    /\ shPc' = "process"
    /\ UNCHANGED <<runtimeVars, sig, termFg, launch, calls, variant, ret, runVal, ran, lastVal, parserVars>>

\* Shell.Run: ed.Read failed: v1 returns 0 on Ctrl-C or EOF and 1 on any
\* other error, v3 panics
ShellReadError ==
    /\ shPc = "prompt"
    /\ \E e \in {"eof", "other"} :
        IF variant = "v1"
        THEN shPc' = "runReturned" /\ runVal' = (IF e = "eof" THEN 0 ELSE 1)
        ELSE shPc' = "panicked" /\ UNCHANGED runVal
    /\ UNCHANGED <<runtimeVars, sig, termFg, launch, calls, variant, cmd, si, pi, ret, ran, lastVal, parserVars>>

\* process: case "exit", "quit": return 0, false
ProcessExit ==
    /\ AtStage
    /\ CurPipe.Command \in ExitVerbs
    /\ ret' = [code |-> 0, alive |-> FALSE]
    /\ shPc' = "processed"
    /\ UNCHANGED <<runtimeVars, sig, termFg, launch, calls, variant, cmd, si, pi, runVal, ran, lastVal, parserVars>>

\* process (v3): case "pwd": sh.doPwd()
ProcessPwd ==
    /\ AtStage
    /\ variant = "v3"
    /\ CurPipe.Command = "pwd"
    /\ ran' = Append(ran, <<si, pi>>)
    /\ si' = NextPos[1] /\ pi' = NextPos[2]
    /\ lastVal' = NoVal
    /\ UNCHANGED <<runtimeVars, sig, termFg, launch, shPc, calls, variant, cmd, ret, runVal, parserVars>>

\* process: the default case (and v3's "repl"): sh.exec / sh.execString
\* call the runtime's exec
ProcessExec ==
    /\ AtStage
    /\ Launched(variant, CurPipe.Command)
    /\ FreeSlots # {}
    /\ (ExecRefused(NewSlot) \/ Exec0Enter(NewSlot))
    /\ shPc' = AfterCallPc
    /\ ran' = Append(ran, <<si, pi>>)
    /\ UNCHANGED <<runtimeVars, sig, termFg, calls, variant, cmd, si, pi, ret, runVal, lastVal, parserVars>>

\* process: exec has returned val; the exit code and the stopOnError test
ProcessExecReturned ==
    /\ shPc = "exec"
    /\ \E l \in Slots :
        /\ launch[l].phase = "returned"
        /\ launch' = [launch EXCEPT ![l] = NoLaunch]
        /\ lastVal' = launch[l].result
        /\ IF Panics(variant, launch[l].result)
           THEN shPc' = "panicked" /\ UNCHANGED <<si, pi, ret>>
           ELSE IF ExitCode(variant, launch[l].result) # 0 /\ StopOnError(CurStmt)
           THEN /\ ret' = [code |-> ExitCode(variant, launch[l].result),
                           alive |-> TRUE]
                /\ shPc' = "processed"
                /\ UNCHANGED <<si, pi>>
           ELSE /\ si' = NextPos[1] /\ pi' = NextPos[2]
                /\ shPc' = "process"
                /\ UNCHANGED ret
    /\ UNCHANGED <<runtimeVars, sig, termFg, calls, variant, cmd, runVal, ran, parserVars>>

\* mutant of EndReturn: process returns the exit code of the last stage
EndReturnLastCode ==
    [code |-> IF lastVal.kind = "none" THEN 0 ELSE ExitCode(variant, lastVal),
     alive |-> TRUE]

\* what process returns when the loops end
EndReturn == [code |-> 0, alive |-> TRUE]

\* process: the loops over the statements have ended
ProcessEnd ==
    /\ shPc = "process"
    /\ si > Len(cmd.Statements)
    /\ ret' = EndReturn
    /\ shPc' = "processed"
    /\ UNCHANGED <<runtimeVars, sig, termFg, launch, calls, variant, cmd, si, pi, runVal, ran, lastVal, parserVars>>

\* Shell.Run: if process says the shell is not alive, return 0; else prompt
RunAfterProcess ==
    /\ shPc = "processed"
    /\ IF ret.alive
       THEN /\ shPc' = "prompt"
            /\ cmd' = NoCmd /\ si' = 0 /\ pi' = 0 /\ ret' = NoRet
            /\ ran' = <<>> /\ lastVal' = NoVal
            /\ input' = <<>> /\ parsed' = NoParse /\ ppc' = "off"
            /\ UNCHANGED runVal
       ELSE /\ shPc' = "runReturned"
            /\ runVal' = 0
            /\ UNCHANGED <<cmd, si, pi, ret, ran, lastVal, input, parsed, ppc>>
    /\ UNCHANGED <<runtimeVars, sig, termFg, launch, calls, variant, words, pipeline>>

(***************************************************************************)
(* The parser: tokenize, splitStatements, splitPipes, parsePipeline and    *)
(* parseCommand. A string is a sequence of one-character strings.          *)
(***************************************************************************)
Alphabet == {"a", "b", " ", ";", "&", "|", "\"", "'", ">", "<"}

QuoteChars == {"\"", "'"}

\* strings.TrimSpace
RECURSIVE TrimLeft(_)
TrimLeft(str) ==
    IF str # <<>> /\ Head(str) = " " THEN TrimLeft(Tail(str)) ELSE str

RECURSIVE TrimRight(_)
TrimRight(str) ==
    IF str # <<>> /\ str[Len(str)] = " "
    THEN TrimRight(SubSeq(str, 1, Len(str) - 1)) ELSE str

TrimSpace(str) == TrimLeft(TrimRight(str))

\* mutant of NextQuote: quotes are not tracked
NextQuoteNone(quote, c) == ""

\* the quote state after character c
NextQuote(quote, c) ==
    IF quote # "" THEN (IF c = quote THEN "" ELSE quote)
    ELSE IF c \in QuoteChars THEN c ELSE ""

\* the scan of splitStatements: split at ';' and '&&' outside quotes,
\* recording the operator of each split point
RECURSIVE ScanStatements(_, _, _, _, _)
ScanStatements(line, i, quote, cur, out) ==
    IF i > Len(line) THEN Append(out, [text |-> cur, op |-> ""])
    ELSE LET c == line[i] IN
        IF quote = "" /\ c = ";"
        THEN ScanStatements(line, i + 1, "", <<>>,
                            Append(out, [text |-> cur, op |-> ";"]))
        ELSE IF quote = "" /\ c = "&" /\ i < Len(line) /\ line[i + 1] = "&"
        THEN ScanStatements(line, i + 2, "", <<>>,
                            Append(out, [text |-> cur, op |-> "&&"]))
        ELSE ScanStatements(line, i + 1, NextQuote(quote, c), Append(cur, c), out)

\* the scan of splitPipes: split at '|' outside quotes
RECURSIVE ScanPipes(_, _, _, _, _)
ScanPipes(stmt, i, quote, cur, out) ==
    IF i > Len(stmt) THEN Append(out, cur)
    ELSE LET c == stmt[i] IN
        IF quote = "" /\ c = "|"
        THEN ScanPipes(stmt, i + 1, "", <<>>, Append(out, cur))
        ELSE ScanPipes(stmt, i + 1, NextQuote(quote, c), Append(cur, c), out)

\* the pieces of a line with their operators, trimmed, empty pieces dropped
StatementPieces(line) ==
    LET raw == ScanStatements(line, 1, "", <<>>, <<>>)
        trimmed == [k \in 1..Len(raw) |->
                        [text |-> TrimSpace(raw[k].text), op |-> raw[k].op]]
    IN SelectSeq(trimmed, LAMBDA x : x.text # <<>>)

\* splitStatements(line): the raw statement substrings
splitStatements(line) ==
    LET ps == StatementPieces(line) IN [k \in 1..Len(ps) |-> ps[k].text]

\* splitPipes(stmt): the raw pipeline substrings
splitPipes(stmt) ==
    LET raw == ScanPipes(stmt, 1, "", <<>>, <<>>)
        trimmed == [k \in 1..Len(raw) |-> TrimSpace(raw[k])]
    IN SelectSeq(trimmed, LAMBDA x : x # <<>>)

\* the end of the current word: empty words are dropped
Flush(cur, out) == IF cur = <<>> THEN out ELSE Append(out, cur)

\* mutant of OperatorAt: '>>' is not looked for
OperatorAtSingle(line, i) == <<line[i]>>

\* the redirect operator that starts at position i: '>>' before '>'
OperatorAt(line, i) ==
    IF line[i] = ">" /\ i < Len(line) /\ line[i + 1] = ">"
    THEN <<">", ">">> ELSE <<line[i]>>

\* tokenize(line): words and redirect operators, quotes removed
RECURSIVE ScanTokens(_, _, _, _, _)
ScanTokens(line, i, quote, cur, out) ==
    IF i > Len(line) THEN Flush(cur, out)
    ELSE LET c == line[i] IN
        IF quote # ""
        THEN ScanTokens(line, i + 1, NextQuote(quote, c),
                        IF c = quote THEN cur ELSE Append(cur, c), out)
        ELSE IF c \in QuoteChars
        THEN ScanTokens(line, i + 1, c, cur, out)
        ELSE IF c = " "
        THEN ScanTokens(line, i + 1, "", <<>>, Flush(cur, out))
        ELSE IF c \in {">", "<"}
        THEN ScanTokens(line, i + Len(OperatorAt(line, i)), "", <<>>,
                        Append(Flush(cur, out), OperatorAt(line, i)))
        ELSE ScanTokens(line, i + 1, "", Append(cur, c), out)

tokenize(line) == ScanTokens(line, 1, "", <<>>, <<>>)

NoRedirect == [Type |-> "", Target |-> <<>>]

RedirectOps == {<<"<">>, <<">">>, <<">", ">">>}

RedirectType(tok) ==
    CASE tok = <<"<">> -> "<"
      [] tok = <<">">> -> ">"
      [] OTHER -> ">>"

\* mutant of AfterRedirect: the Target is not skipped and is read again as
\* an argument
AfterRedirectNoSkip(i) == i + 1

\* the token after a redirect operator and its Target
AfterRedirect(i) == i + 2

\* the token loop of parsePipeline: a redirect operator takes the next
\* token as its Target, any other token is an argument
RECURSIVE ScanArgs(_, _, _)
ScanArgs(toks, i, pl) ==
    IF i > Len(toks) THEN pl
    ELSE IF toks[i] \in RedirectOps
    THEN IF i + 1 <= Len(toks)
         THEN LET r == [Type |-> RedirectType(toks[i]), Target |-> toks[i + 1]]
              IN ScanArgs(toks, AfterRedirect(i),
                          IF toks[i] = <<"<">> THEN [pl EXCEPT !.Stdin = r]
                          ELSE [pl EXCEPT !.Stdout = r])
         ELSE ScanArgs(toks, i + 1, pl)
    ELSE ScanArgs(toks, i + 1, [pl EXCEPT !.Args = Append(@, toks[i])])

\* a Pipeline with no Command, no Args and no redirects
NoPipeline ==
    [Command |-> <<>>, Args |-> <<>>, Stdin |-> NoRedirect,
     Stdout |-> NoRedirect, Stderr |-> NoRedirect]

\* parsePipeline(stmt)
parsePipeline(stmt) ==
    LET toks == tokenize(stmt)
    IN IF toks = <<>> THEN NoPipeline
       ELSE ScanArgs(toks, 2, [NoPipeline EXCEPT !.Command = toks[1]])

\* mutant of StatementOperator: a trailing separator stays on the last
\* statement
StatementOperatorKeepLast(ps, k) == ps[k].op

\* mutant of StatementOperator: a statement gets the operator before it
StatementOperatorBefore(ps, k) == IF k = 1 THEN "" ELSE ps[k - 1].op

\* the Operator of the k-th statement: the operator that follows it, and
\* the empty string for the last statement
StatementOperator(ps, k) == IF k = Len(ps) THEN "" ELSE ps[k].op

\* mutant of KeepPipeline: a stage without a word is kept
KeepPipelineAlways(pl) == TRUE

\* a stage is part of its statement when it has a Command
KeepPipeline(pl) == pl.Command # <<>>

\* the Pipelines of one raw statement
StatementPipelines(text) ==
    LET pipes == splitPipes(text)
    IN SelectSeq([j \in 1..Len(pipes) |-> parsePipeline(pipes[j])], KeepPipeline)

\* the statements of a line with their operators; every Statement has at
\* least one Pipeline
ParsedPieces(line) ==
    LET ps == StatementPieces(line)
    IN SelectSeq([k \in 1..Len(ps) |->
                      [Pipelines |-> StatementPipelines(ps[k].text),
                       op |-> ps[k].op]],
                 LAMBDA x : x.Pipelines # <<>>)

\* mutant of parseCommand: no case for the line without statements, which
\* gives one statement with one empty stage
parseCommandOneEmpty(line) ==
    LET ps == ParsedPieces(line) IN
    [Raw |-> line,
     Statements |->
        IF ps = <<>> THEN <<[Pipelines |-> <<NoPipeline>>, Operator |-> ""]>>
        ELSE [k \in 1..Len(ps) |->
                [Pipelines |-> ps[k].Pipelines,
                 Operator |-> StatementOperator(ps, k)]]]

\* parseCommand(line)
parseCommand(line) ==
    LET ps == ParsedPieces(line) IN
    [Raw |-> line,
     Statements |->
        [k \in 1..Len(ps) |->
            [Pipelines |-> ps[k].Pipelines,
             Operator |-> StatementOperator(ps, k)]]]

\* the parser is given a line
ParseCommand ==
    /\ ppc = "input"
    /\ parsed' = parseCommand(input)
    /\ ppc' = "parsed"
    /\ UNCHANGED <<runtimeVars, sig, termFg, launch, shPc, calls, shellVars, input, words, pipeline>>

\* tokenize is given a line
Tokenize ==
    /\ ppc = "input"
    /\ words' = tokenize(input)
    /\ ppc' = "tokenize"
    /\ UNCHANGED <<runtimeVars, sig, termFg, launch, shPc, calls, shellVars, input, parsed, pipeline>>

\* splitStatements is given a line
SplitStatements ==
    /\ ppc = "input"
    /\ words' = splitStatements(input)
    /\ ppc' = "splitStatements"
    /\ UNCHANGED <<runtimeVars, sig, termFg, launch, shPc, calls, shellVars, input, parsed, pipeline>>

\* splitPipes is given a statement
SplitPipes ==
    /\ ppc = "input"
    /\ words' = splitPipes(input)
    /\ ppc' = "splitPipes"
    /\ UNCHANGED <<runtimeVars, sig, termFg, launch, shPc, calls, shellVars, input, parsed, pipeline>>

\* parsePipeline is given a stage
ParsePipeline ==
    /\ ppc = "input"
    /\ pipeline' = parsePipeline(input)
    /\ ppc' = "parsePipeline"
    /\ UNCHANGED <<runtimeVars, sig, termFg, launch, shPc, calls, shellVars, input, parsed, words>>

(***************************************************************************)
(* Shell.process on the text of a line: cmd := parseCommand(line).         *)
(***************************************************************************)
\* lines of text the prompt can read
TextLines == {<<>>, <<" ">>, <<";">>, <<"l", "s">>}

\* the case of the switch in process a Command word selects; a word that
\* is no built-in is an external command
VerbOf(w) ==
    CASE w = <<"e", "x", "i", "t">> -> "exit"
      [] w = <<"q", "u", "i", "t">> -> "quit"
      [] w = <<"p", "w", "d">> -> "pwd"
      [] w = <<"r", "e", "p", "l">> -> "repl"
      [] OTHER -> "ls"

\* the Command as process walks it: Statements, Pipelines, Command, Operator
AstOf(c) ==
    [Statements |->
        [k \in 1..Len(c.Statements) |->
            [Pipelines |->
                [j \in 1..Len(c.Statements[k].Pipelines) |->
                    [Command |-> VerbOf(c.Statements[k].Pipelines[j].Command),
                     Args |-> <<>>]],
             Operator |-> c.Statements[k].Operator]]]

\* Shell.Run: ed.Read returned the text of a line; process parses it
ShellReadText ==
    /\ shPc = "prompt"
    /\ \E line \in TextLines :
        /\ input' = line
        /\ parsed' = parseCommand(line)
        /\ cmd' = AstOf(parseCommand(line))
    /\ ppc' = "process"
    /\ si' = 1 /\ pi' = 1
    /\ shPc' = "process"
    /\ UNCHANGED <<runtimeVars, sig, termFg, launch, calls, variant, ret, runVal, ran, lastVal, words, pipeline>>

(***************************************************************************)
(* The subscribers of the event code: the methods of the EventLoop type    *)
(* (revision "loop") and the package-level functions (revision "global").  *)
(***************************************************************************)
\* the object ids and the event types the callers name
Objs == {"o1"}
EventTypes == {"test", "other"}

\* the listeners: two functions, and the nil Callable
Callables == {"f", "g"}
NilListener == "nil"

\* no entry for the event type: the lookup finds nothing
NoListeners == [has |-> FALSE, ls |-> <<>>]
Listeners(ls) == [has |-> TRUE, ls |-> ls]

NoSubscribers == [o \in Objs |-> [t \in EventTypes |-> NoListeners]]
NoSubCall == [op |-> "none", o |-> "", t |-> "", l |-> ""]

\* EventLoop.setSubscriber: a nil listener deletes the event type and
\* returns; any other listener becomes the only one
setSubscriber(subs, o, t, l) ==
    IF l = NilListener
    THEN [subs EXCEPT ![o][t] = NoListeners]
    ELSE [subs EXCEPT ![o][t] = Listeners(<<l>>)]

\* EventLoop.addSubscriber: a nil listener deletes the event type and
\* returns; any other listener is appended
addSubscriber(subs, o, t, l) ==
    IF l = NilListener
    THEN [subs EXCEPT ![o][t] = NoListeners]
    ELSE [subs EXCEPT ![o][t] = Listeners(Append(subs[o][t].ls, l))]

\* EventLoop.getSubscribers: a copy of the listeners, nil without an entry
getSubscribers(subs, o, t) == subs[o][t]

\* EventLoop.unsubscribeAll: delete(el.subscribers, objectID)
unsubscribeAll(subs, o) == [subs EXCEPT ![o] = [t \in EventTypes |-> NoListeners]]

\* the package-level SetSubscriber: the delete for a nil listener is not
\* followed by a return, the assignment after it stores the nil listener
SetSubscriber(subs, o, t, l) == [subs EXCEPT ![o][t] = Listeners(<<l>>)]

\* the package-level AddSubscriber: after the delete for a nil listener the
\* append puts nil into the fresh slice
AddSubscriber(subs, o, t, l) ==
    [subs EXCEPT ![o][t] =
        Listeners(Append(IF l = NilListener THEN <<>> ELSE subs[o][t].ls, l))]

\* the package-level GetSubscribers
GetSubscribers(subs, o, t) == subs[o][t]

\* what a lookup returns in the revision running
Lookup(o, t) ==
    IF rev = "loop" THEN getSubscribers(subscribers, o, t)
    ELSE GetSubscribers(subscribers, o, t)

\* obj.on(eventType, handler) / (Set|set)Subscriber
CallSetSubscriber ==
    \E o \in Objs, t \in EventTypes, l \in Callables \cup {NilListener} :
        /\ subscribers' = IF rev = "loop" THEN setSubscriber(subscribers, o, t, l)
                          ELSE SetSubscriber(subscribers, o, t, l)
        /\ subCall' = [op |-> "set", o |-> o, t |-> t, l |-> l]
        /\ UNCHANGED <<frontVars, extVars, rev, loopVars>>

\* obj.addEventListener(eventType, handler) / (Add|add)Subscriber
CallAddSubscriber ==
    \E o \in Objs, t \in EventTypes, l \in Callables \cup {NilListener} :
        /\ Len(subscribers[o][t].ls) < MaxSubscribers
        /\ subscribers' = IF rev = "loop" THEN addSubscriber(subscribers, o, t, l)
                          ELSE AddSubscriber(subscribers, o, t, l)
        /\ subCall' = [op |-> "add", o |-> o, t |-> t, l |-> l]
        /\ UNCHANGED <<frontVars, extVars, rev, loopVars>>

\* Unregister(obj) / UnsubscribeAll
CallUnsubscribeAll ==
    \E o \in Objs :
        /\ subscribers' = unsubscribeAll(subscribers, o)
        /\ subCall' = [op |-> "unsubscribeAll", o |-> o, t |-> "", l |-> ""]
        /\ UNCHANGED <<frontVars, extVars, rev, loopVars>>

(***************************************************************************)
(* The event loop: Start and Stop of the EventLoop type (revision "loop")  *)
(* and EventLoopStart / EventLoopStop of the package (revision "global").  *)
(***************************************************************************)
\* the goroutines that call Start and those that call Stop
Starters == 1..MaxStarts
Timers == 1..MaxTimers

\* the objects given to ClearTimeout: the timers, and 0, an object that
\* SetTimeout did not make
TimerObjs == 0..MaxTimers

\* a timer SetTimeout has not made yet; elapsed: its delay has elapsed
\* (timer.C is ready); cancelled: cancel() of its context was called;
\* clears: the ClearTimeout calls on it; cleared: one of them was made before
\* its delay had elapsed; fired: how often its callback was invoked
NoTimer ==
    [pc |-> "none", elapsed |-> FALSE, cancelled |-> FALSE, clears |-> 0,
     cleared |-> FALSE, fired |-> 0]

\* no JSRuntime; kind: "own" for Run of src/engine.go (the EventLoop type),
\* "nodejs" for Run of src/engine/engine.go; prog: how the program ended;
\* late: the callback the program left for later; todo: the hooks the
\* deferred function still has to call; err: what Run returns
NoRunner ==
    [pc |-> "off", kind |-> "none", prog |-> "none", late |-> "none",
     todo |-> <<>>, err |-> "none", exitCode |-> 0]

\* no Mount or Unmount call made yet; point: the cleaned mount point of the
\* call; fs: the filesystem given; ret: the error returned
NoMountCall == [op |-> "none", point |-> <<>>, fs |-> "nil", ret |-> "nil"]
Stoppers == 1..MaxStoppers

\* a goroutine that has not called Start; todo: the functions the function
\* it runs still has to send; back: where it goes on after them; left and
\* regs: the queue and the number of registered stop functions when it left
\* the select loop; stops: the stop functions to call; selCh: the channel
\* its select waits on
NoStarter ==
    [pc |-> "none", todo |-> <<>>, back |-> "", left |-> <<>>, regs |-> 0,
     stops |-> <<>>, selCh |-> 0]

\* a goroutine that has not called Stop; once, stopCh, closeCh: the copies
\* Stop takes
NoStopper ==
    [pc |-> "idle", once |-> 0, stopCh |-> 0, closeCh |-> 0]

\* a function on the events channel
PlainFn(n) == [k |-> "plain", a |-> n, b |-> 0]

\* slices.Reverse
Reverse(s) == [i \in 1..Len(s) |-> s[Len(s) + 1 - i]]

\* no goroutine has panicked: a panic ends the process
Running == panicked = "none"

\* close(ch) where ch is <<kind, id>> and id 0 is the nil channel: what the
\* runtime says about it
ClosePanic(ch) ==
    IF ch[2] = 0 THEN "close of nil channel"
    ELSE IF ch \in closedChs THEN "close of closed channel"
    ELSE "none"

\* go el.Start()
GoStart(g) ==
    /\ Running
    /\ starter[g].pc = "none"
    /\ starter' = [starter EXCEPT ![g].pc = "spawned"]
    /\ UNCHANGED <<frontVars, extVars, subVars, chanVars, queueVars, stopFnVars, stopper, panicked>>

\* Start, under stateMutex: return if already started, else make the Once
\* and the two channels
StartEnter(g) ==
    /\ Running /\ rev = "loop"
    /\ starter[g].pc = "spawned"
    /\ IF globalEventStopOnce # 0
       THEN /\ starter' = [starter EXCEPT ![g].pc = "early"]
            /\ UNCHANGED <<globalEventStopOnce, globalEventStopCh, globalEventCloseCh>>
       ELSE /\ globalEventStopOnce' = g
            /\ globalEventStopCh' = g
            /\ globalEventCloseCh' = g
            /\ starter' = [starter EXCEPT ![g].pc = "select", ![g].selCh = g]
    /\ UNCHANGED <<frontVars, extVars, subVars, closedChs, doneOnces, queueVars, stopFnVars, stopper, panicked>>

\* Start: case <-el.globalEventStopCh: break loop
LoopStopSignal(g) ==
    /\ Running /\ rev = "loop"
    /\ starter[g].pc = "select"
    /\ <<"stop", globalEventStopCh>> \in closedChs
    /\ starter' = [starter EXCEPT ![g].pc = "drain", ![g].left = events,
                                  ![g].regs = Len(globalEventStops)]
    /\ UNCHANGED <<frontVars, extVars, subVars, chanVars, queueVars, stopFnVars, stopper, panicked>>

\* mutant of Drained: the loop does not drain the remaining events
DrainedAlways(q) == TRUE

\* Start: for len(el.events) > 0
Drained(q) == q = <<>>

\* mutant of StopOrder: the stop functions are called in the order registered
StopOrderForward(s) == s

\* Start: slices.Reverse(el.globalEventStops)
StopOrder(s) == Reverse(s)

\* Start: the drain loop has ended: reverse the stop functions, range over them
DrainDone(g) ==
    /\ Running /\ rev = "loop"
    /\ starter[g].pc = "drain"
    /\ Drained(events)
    /\ globalEventStops' = StopOrder(globalEventStops)
    /\ starter' = [starter EXCEPT ![g].pc = "stops",
                                  ![g].stops = StopOrder(globalEventStops)]
    /\ UNCHANGED <<frontVars, extVars, subVars, chanVars, queueVars, stopLog, stopper, panicked>>

\* Start: stop() for the next stop function
CallStop(g) ==
    /\ Running
    /\ starter[g].pc = "stops"
    /\ starter[g].stops # <<>>
    /\ stopLog' = Append(stopLog, Head(starter[g].stops))
    /\ starter' = [starter EXCEPT ![g].stops = Tail(@)]
    /\ UNCHANGED <<frontVars, extVars, subVars, chanVars, queueVars, globalEventStops, stopper, panicked>>

\* Start returns: the deferred function begins with close(globalEventCloseCh)
StartDeferClose(g) ==
    /\ Running
    /\ starter[g].pc = "stops"
    /\ starter[g].stops = <<>>
    /\ LET ch == <<"close", globalEventCloseCh>>
       IN IF ClosePanic(ch) # "none"
          THEN panicked' = ClosePanic(ch) /\ UNCHANGED <<closedChs, starter>>
          ELSE /\ closedChs' = closedChs \cup {ch}
               /\ starter' = [starter EXCEPT ![g].pc = "deferOnce"]
               /\ UNCHANGED panicked
    /\ UNCHANGED <<frontVars, extVars, subVars, globalEventStopOnce, globalEventStopCh, globalEventCloseCh,
                   doneOnces, queueVars, stopFnVars, stopper>>

\* Start returns: globalEventStopOnce.Do(func() { close(globalEventStopCh) })
StartDeferOnce(g) ==
    /\ Running
    /\ starter[g].pc = "deferOnce"
    /\ LET ch == <<"stop", globalEventStopCh>>
       IN IF globalEventStopOnce \in doneOnces
          THEN /\ starter' = [starter EXCEPT ![g].pc = "returned"]
               /\ UNCHANGED <<closedChs, doneOnces, panicked>>
          ELSE IF ClosePanic(ch) # "none"
          THEN panicked' = ClosePanic(ch) /\ UNCHANGED <<closedChs, doneOnces, starter>>
          ELSE /\ closedChs' = closedChs \cup {ch}
               /\ doneOnces' = doneOnces \cup {globalEventStopOnce}
               /\ starter' = [starter EXCEPT ![g].pc = "returned"]
               /\ UNCHANGED panicked
    /\ UNCHANGED <<frontVars, extVars, subVars, globalEventStopOnce, globalEventStopCh, globalEventCloseCh,
                   queueVars, stopFnVars, stopper>>

\* the goroutine has not called Stop yet: the Stop calls are made one after
\* the other or at the same time, each by a goroutine of its own; the
\* goroutine of Run makes its call when the deferred Stop is reached
CanCallStop(s) ==
    /\ stopper[s].pc = "idle"
    /\ runner.pc = "off" \/ (s = 1 /\ runner.pc = "stop")

\* Stop, under stateMutex: return if not started, else copy the Once and the
\* two channels
StopEnter(s) ==
    /\ Running /\ rev = "loop"
    /\ CanCallStop(s)
    /\ stopper' = [stopper EXCEPT ![s] =
          IF globalEventStopOnce = 0
          THEN [@ EXCEPT !.pc = "notStarted"]
          ELSE [pc |-> "once", once |-> globalEventStopOnce,
                stopCh |-> globalEventStopCh, closeCh |-> globalEventCloseCh]]
    /\ UNCHANGED <<frontVars, extVars, subVars, chanVars, queueVars, stopFnVars, starter, panicked>>

\* Stop: stopOnce.Do(func() { if stopCh != nil { close(stopCh) } })
StopOnce(s) ==
    /\ Running /\ rev = "loop"
    /\ stopper[s].pc = "once"
    /\ LET ch == <<"stop", stopper[s].stopCh>>
       IN IF stopper[s].once \in doneOnces
          THEN /\ stopper' = [stopper EXCEPT ![s].pc = "wait"]
               /\ UNCHANGED <<closedChs, doneOnces, panicked>>
          ELSE IF ch[2] # 0 /\ ClosePanic(ch) # "none"
          THEN panicked' = ClosePanic(ch) /\ UNCHANGED <<closedChs, doneOnces, stopper>>
          ELSE /\ closedChs' = IF ch[2] # 0 THEN closedChs \cup {ch} ELSE closedChs
               /\ doneOnces' = doneOnces \cup {stopper[s].once}
               /\ stopper' = [stopper EXCEPT ![s].pc = "wait"]
               /\ UNCHANGED panicked
    /\ UNCHANGED <<frontVars, extVars, subVars, globalEventStopOnce, globalEventStopCh, globalEventCloseCh,
                   queueVars, stopFnVars, starter>>

\* Stop: if closeCh != nil { <-closeCh }, and return
StopWait(s) ==
    /\ Running
    /\ stopper[s].pc = "wait"
    /\ stopper[s].closeCh # 0 => <<"close", stopper[s].closeCh>> \in closedChs
    /\ stopper' = [stopper EXCEPT ![s].pc = "done"]
    /\ UNCHANGED <<frontVars, extVars, subVars, chanVars, queueVars, stopFnVars, starter, panicked>>

\* Register with a stop function: el.globalEventStops = append(..., stop);
\* the stop functions are numbered in the order registered
RegisterStop ==
    /\ Running
    /\ Len(globalEventStops) < MaxStopFns
    /\ globalEventStops' = Append(globalEventStops, Len(globalEventStops) + 1)
    /\ UNCHANGED <<frontVars, extVars, subVars, chanVars, queueVars, stopLog, starter, stopper, panicked>>

\* another goroutine sends a function: el.events <- fn
Post ==
    /\ Running /\ rev = "loop"
    /\ posted < MaxPosts
    /\ Len(events) < EventsCap
    /\ events' = Append(events, PlainFn(posted + 1))
    /\ posted' = posted + 1
    /\ UNCHANGED <<frontVars, extVars, subVars, chanVars, log, stopFnVars, starter, stopper, panicked>>

\* Start: case fn := <-el.events: fn(), and fn := <-el.events; fn() of the
\* drain loop, for a function that sends nothing
LoopRunPlain(g) ==
    /\ Running /\ rev = "loop"
    /\ starter[g].pc \in {"select", "drain"}
    /\ events # <<>>
    /\ Head(events).k = "plain"
    /\ events' = Tail(events)
    /\ log' = Append(log, Head(events))
    /\ UNCHANGED <<frontVars, extVars, subVars, chanVars, posted, stopFnVars, starter, stopper, panicked>>

(***************************************************************************)
(* The package-level loop: EventLoopStart and EventLoopStop.  No mutex     *)
(* guards the three variables: each read and write is a step.              *)
(***************************************************************************)
\* EventLoopStart: if globalEventStopOnce != nil { return }
EventLoopStartCheck(g) ==
    /\ Running /\ rev = "global"
    /\ starter[g].pc = "spawned"
    /\ starter' = [starter EXCEPT ![g].pc =
                      IF globalEventStopOnce # 0 THEN "early" ELSE "setOnce"]
    /\ UNCHANGED <<frontVars, extVars, subVars, chanVars, queueVars, stopFnVars, stopper, panicked>>

\* EventLoopStart: globalEventStopOnce = &sync.Once{}
EventLoopStartOnce(g) ==
    /\ Running /\ rev = "global"
    /\ starter[g].pc = "setOnce"
    /\ globalEventStopOnce' = g
    /\ starter' = [starter EXCEPT ![g].pc = "setStopCh"]
    /\ UNCHANGED <<frontVars, extVars, subVars, globalEventStopCh, globalEventCloseCh, closedChs,
                   doneOnces, queueVars, stopFnVars, stopper, panicked>>

\* EventLoopStart: globalEventStopCh = make(chan struct{})
EventLoopStartStopCh(g) ==
    /\ Running /\ rev = "global"
    /\ starter[g].pc = "setStopCh"
    /\ globalEventStopCh' = g
    /\ starter' = [starter EXCEPT ![g].pc = "setCloseCh"]
    /\ UNCHANGED <<frontVars, extVars, subVars, globalEventStopOnce, globalEventCloseCh, closedChs,
                   doneOnces, queueVars, stopFnVars, stopper, panicked>>

\* EventLoopStart: globalEventCloseCh = make(chan struct{})
EventLoopStartCloseCh(g) ==
    /\ Running /\ rev = "global"
    /\ starter[g].pc = "setCloseCh"
    /\ globalEventCloseCh' = g
    /\ starter' = [starter EXCEPT ![g].pc = "toSelect"]
    /\ UNCHANGED <<frontVars, extVars, subVars, globalEventStopOnce, globalEventStopCh, closedChs,
                   doneOnces, queueVars, stopFnVars, stopper, panicked>>

\* EventLoopStart: the select statement evaluates globalEventStopCh
EventLoopStartSelect(g) ==
    /\ Running /\ rev = "global"
    /\ starter[g].pc = "toSelect"
    /\ starter' = [starter EXCEPT ![g].pc = "select", ![g].selCh = globalEventStopCh]
    /\ UNCHANGED <<frontVars, extVars, subVars, chanVars, queueVars, stopFnVars, stopper, panicked>>

\* EventLoopStart: case <-doneCh (every registered loop function has
\* returned) or case <-globalEventStopCh; then slices.Reverse and the range
EventLoopStartWake(g) ==
    /\ Running /\ rev = "global"
    /\ starter[g].pc = "select"
    /\ \E why \in {"done", "stop"} :
          why = "stop" => <<"stop", starter[g].selCh>> \in closedChs
    /\ globalEventStops' = StopOrder(globalEventStops)
    /\ starter' = [starter EXCEPT ![g].pc = "stops",
                                  ![g].regs = Len(globalEventStops),
                                  ![g].stops = StopOrder(globalEventStops)]
    /\ UNCHANGED <<frontVars, extVars, subVars, chanVars, queueVars, stopLog, stopper, panicked>>

\* EventLoopStop: if globalEventStopOnce == nil { return }
EventLoopStopCheck(s) ==
    /\ Running /\ rev = "global"
    /\ CanCallStop(s)
    /\ stopper' = [stopper EXCEPT ![s] =
          IF globalEventStopOnce = 0
          THEN [@ EXCEPT !.pc = "notStarted"]
          ELSE [@ EXCEPT !.pc = "once"]]
    /\ UNCHANGED <<frontVars, extVars, subVars, chanVars, queueVars, stopFnVars, starter, panicked>>

\* EventLoopStop: globalEventStopOnce.Do(func() { close(globalEventStopCh) })
EventLoopStopOnce(s) ==
    /\ Running /\ rev = "global"
    /\ stopper[s].pc = "once"
    /\ LET ch == <<"stop", globalEventStopCh>>
       IN IF globalEventStopOnce \in doneOnces
          THEN /\ stopper' = [stopper EXCEPT ![s].pc = "toWait"]
               /\ UNCHANGED <<closedChs, doneOnces, panicked>>
          ELSE IF ClosePanic(ch) # "none"
          THEN panicked' = ClosePanic(ch) /\ UNCHANGED <<closedChs, doneOnces, stopper>>
          ELSE /\ closedChs' = closedChs \cup {ch}
               /\ doneOnces' = doneOnces \cup {globalEventStopOnce}
               /\ stopper' = [stopper EXCEPT ![s].pc = "toWait"]
               /\ UNCHANGED panicked
    /\ UNCHANGED <<frontVars, extVars, subVars, globalEventStopOnce, globalEventStopCh, globalEventCloseCh,
                   queueVars, stopFnVars, starter>>

\* EventLoopStop: <-globalEventCloseCh evaluates the variable: a receive
\* from the nil channel blocks forever
EventLoopStopReceive(s) ==
    /\ Running /\ rev = "global"
    /\ stopper[s].pc = "toWait"
    /\ stopper' = [stopper EXCEPT
          ![s].pc = IF globalEventCloseCh = 0 THEN "blockedNil" ELSE "wait",
          ![s].closeCh = globalEventCloseCh]
    /\ UNCHANGED <<frontVars, extVars, subVars, chanVars, queueVars, stopFnVars, starter, panicked>>

(***************************************************************************)
(* publish: DispatchEvent called from another goroutine and from inside a  *)
(* listener that the loop is running.                                      *)
(***************************************************************************)
\* the object and the event type dispatched
DispatchObj == "o1"
DispatchType == "test"

\* publish: the function sent for a listener: it calls the listener with the
\* arguments of publish call n
CallFn(l, n) == [k |-> "call", a |-> l, b |-> n]

\* publish: the functions sent for the listeners found, in their order
CallFns(ls, n) == [i \in 1..Len(ls) |-> CallFn(ls[i], n)]

\* AddEventListener(obj, "test", l)
AddEventListener(l) ==
    /\ Len(subscribers[DispatchObj][DispatchType].ls) < MaxSubscribers
    /\ subscribers' = addSubscriber(subscribers, DispatchObj, DispatchType, l)
    /\ subCall' = [op |-> "add", o |-> DispatchObj, t |-> DispatchType, l |-> l]
    /\ UNCHANGED <<frontVars, extVars, rev, loopVars>>

\* the listener "f" dispatches the event again from inside; "g" does not
Redispatches(l) == l = "f"

\* DispatchEvent called by a goroutine that is not the loop: publish takes
\* the listeners, then sends one function for each
DispatchEvent ==
    /\ Running /\ rev = "loop"
    /\ dispatcher = <<>>
    /\ Len(dispatched) < MaxDispatches
    /\ LET ls == getSubscribers(subscribers, DispatchObj, DispatchType).ls
       IN /\ dispatched' = Append(dispatched, ls)
          /\ dispatcher' = CallFns(ls, Len(dispatched) + 1)
    /\ UNCHANGED <<frontVars, subVars, loopVars, timers, runVars, mountVars>>

\* publish outside the loop: el.events <- func() { listener(...) }
DispatcherSend ==
    /\ Running
    /\ dispatcher # <<>>
    /\ Len(events) < EventsCap
    /\ events' = Append(events, Head(dispatcher))
    /\ dispatcher' = Tail(dispatcher)
    /\ UNCHANGED <<frontVars, subVars, chanVars, posted, log, stopFnVars, starter, stopper,
                   panicked, dispatched, timers, runVars, mountVars>>

\* Start: fn := <-el.events; fn() for a function that calls a listener; a
\* listener that dispatches enters publish on the loop goroutine
LoopRunListener(g) ==
    /\ Running /\ rev = "loop"
    /\ starter[g].pc \in {"select", "drain"}
    /\ events # <<>>
    /\ Head(events).k = "call"
    /\ events' = Tail(events)
    /\ log' = Append(log, Head(events))
    /\ LET ls == getSubscribers(subscribers, DispatchObj, DispatchType).ls
       IN IF Redispatches(Head(events).a) /\ Len(dispatched) < MaxDispatches
          THEN /\ dispatched' = Append(dispatched, ls)
               /\ starter' = [starter EXCEPT
                     ![g].pc = IF ls = <<>> THEN @ ELSE "sending",
                     ![g].back = starter[g].pc,
                     ![g].todo = CallFns(ls, Len(dispatched) + 1)]
          ELSE UNCHANGED <<dispatched, starter>>
    /\ UNCHANGED <<frontVars, subVars, chanVars, posted, stopFnVars, stopper, panicked,
                   dispatcher, timers, runVars, mountVars>>

\* publish on the loop goroutine: el.events <- func() { listener(...) }; the
\* send waits while the channel is full
LoopSend(g) ==
    /\ Running
    /\ starter[g].pc = "sending"
    /\ Len(events) < EventsCap
    /\ events' = Append(events, Head(starter[g].todo))
    /\ starter' = [starter EXCEPT
          ![g].todo = Tail(@),
          ![g].pc = IF Len(starter[g].todo) = 1 THEN starter[g].back ELSE @]
    /\ UNCHANGED <<frontVars, extVars, subVars, chanVars, posted, log, stopFnVars, stopper, panicked>>

(***************************************************************************)
(* SetTimeout and ClearTimeout.                                            *)
(***************************************************************************)
\* the functions a timer puts on the events channel: the start wrapper of
\* Register, the call of the "cancel" listener, the call of the callback
TimerFn(kind, t) == [k |-> kind, a |-> t, b |-> 0]

\* SetTimeout: Register sends the start wrapper and appends the stop
\* function; the callback listens to "expire", cancel() to "cancel"
SetTimeout(t) ==
    /\ Running /\ rev = "loop"
    /\ timers[t].pc = "none"
    /\ \A u \in 1..(t - 1) : timers[u].pc # "none"
    /\ Len(events) < EventsCap
    /\ events' = Append(events, TimerFn("start", t))
    /\ globalEventStops' = Append(globalEventStops, Len(globalEventStops) + 1)
    /\ timers' = [timers EXCEPT ![t].pc = "queued"]
    /\ UNCHANGED <<frontVars, subVars, chanVars, posted, log, stopLog, starter, stopper,
                   panicked, dispatchVars, runVars, mountVars>>

\* the ClearTimeout calls made on the objects of ts
RECURSIVE ClearsMade(_)
ClearsMade(ts) ==
    IF ts = {} THEN 0
    ELSE LET t == CHOOSE u \in ts : TRUE
         IN timers[t].clears + ClearsMade(ts \ {t})

\* ClearTimeout: the listeners of "cancel" that publish finds for the
\* object: the one SetTimeout added, none for any other object
CancelListeners(t) ==
    IF t \in Timers /\ timers[t].pc # "none" THEN <<TimerFn("cancel", t)>> ELSE <<>>

\* ClearTimeout(tm): DispatchEvent(tm, "cancel") sends the call of the
\* cancel listener, if the object has one
ClearTimeout(t) ==
    /\ Running /\ rev = "loop"
    /\ ClearsMade(TimerObjs) < MaxClears
    /\ Len(events) + Len(CancelListeners(t)) <= EventsCap
    /\ events' = events \o CancelListeners(t)
    /\ timers' = [timers EXCEPT
          ![t].clears = @ + 1,
          ![t].cleared = @ \/ (timers[t].pc \in {"queued", "spawned", "select"}
                                    /\ ~timers[t].elapsed)]
    /\ UNCHANGED <<frontVars, subVars, chanVars, posted, log, stopFnVars, starter, stopper,
                   panicked, dispatchVars, runVars, mountVars>>

\* Start: fn() for the start wrapper: the goroutine of the timer is started
\* and makes its time.Timer; it has not reached its select
LoopRunStart(g) ==
    /\ Running /\ rev = "loop"
    /\ starter[g].pc \in {"select", "drain"}
    /\ events # <<>>
    /\ Head(events).k = "start"
    /\ events' = Tail(events)
    /\ log' = Append(log, Head(events))
    /\ timers' = [timers EXCEPT ![Head(events).a].pc = "spawned"]
    /\ UNCHANGED <<frontVars, subVars, chanVars, posted, stopFnVars, starter, stopper,
                   panicked, dispatchVars, runVars, mountVars>>

\* the timer goroutine reaches its select: it takes a case that is ready,
\* either of them if both are, and waits if none is
TimerSelect(t) ==
    /\ Running
    /\ timers[t].pc = "spawned"
    /\ \E to \in {"select", "expire", "stopped"} :
          /\ to = "select" <=> (~timers[t].elapsed /\ ~timers[t].cancelled)
          /\ to = "expire" => timers[t].elapsed
          /\ to = "stopped" => timers[t].cancelled
          /\ timers' = [timers EXCEPT ![t].pc = to]
    /\ UNCHANGED <<frontVars, subVars, loopVars, dispatchVars, runVars, mountVars>>

\* the delay of the timer elapses: timer.C becomes ready, and a goroutine
\* waiting in its select takes case <-timer.C
TimerElapse(t) ==
    /\ Running
    /\ timers[t].pc \in {"spawned", "select"}
    /\ ~timers[t].elapsed
    /\ timers' = [timers EXCEPT ![t].elapsed = TRUE,
                                ![t].pc = IF @ = "select" THEN "expire" ELSE @]
    /\ UNCHANGED <<frontVars, subVars, loopVars, dispatchVars, runVars, mountVars>>

\* the timer goroutine: case <-timer.C: el.DispatchEvent(tm, "expire", args...)
TimerExpire(t) ==
    /\ Running
    /\ timers[t].pc = "expire"
    /\ Len(events) < EventsCap
    /\ events' = Append(events, TimerFn("expire", t))
    /\ timers' = [timers EXCEPT ![t].pc = "sent"]
    /\ UNCHANGED <<frontVars, subVars, chanVars, posted, log, stopFnVars, starter, stopper,
                   panicked, dispatchVars, runVars, mountVars>>

\* Start: fn() for the call of the cancel listener: cancel(); a goroutine
\* waiting in its select takes case <-ctx.Done()
LoopRunCancel(g) ==
    /\ Running /\ rev = "loop"
    /\ starter[g].pc \in {"select", "drain"}
    /\ events # <<>>
    /\ Head(events).k = "cancel"
    /\ events' = Tail(events)
    /\ log' = Append(log, Head(events))
    /\ timers' = [timers EXCEPT
          ![Head(events).a].cancelled = TRUE,
          ![Head(events).a].pc = IF @ = "select" THEN "stopped" ELSE @]
    /\ UNCHANGED <<frontVars, subVars, chanVars, posted, stopFnVars, starter, stopper,
                   panicked, dispatchVars, runVars, mountVars>>

\* Start: fn() for the call of the "expire" listener: the callback runs
LoopRunExpire(g) ==
    /\ Running /\ rev = "loop"
    /\ starter[g].pc \in {"select", "drain"}
    /\ events # <<>>
    /\ Head(events).k = "expire"
    /\ events' = Tail(events)
    /\ log' = Append(log, Head(events))
    /\ timers' = [timers EXCEPT ![Head(events).a].fired = @ + 1]
    /\ UNCHANGED <<frontVars, subVars, chanVars, posted, stopFnVars, starter, stopper,
                   panicked, dispatchVars, runVars, mountVars>>

(***************************************************************************)
(* The mount filesystems: MountFS (cleanPath, root ".") and FS (CleanPath, *)
(* root "/").  A path is a sequence of characters.                         *)
(***************************************************************************)
PathChars == {"/", "a"}

\* mount points with "." and ".." elements
DotPaths ==
    {<<".">>, <<".", "/", "a">>, <<"a", "/", ".">>, <<"a", "/", ".", ".">>,
     <<"/", ".", ".", "/", "a">>}

\* the mount points given to Mount and Unmount
RawPaths == UNION {[1..n -> PathChars] : n \in 0..MaxPathLen} \cup DotPaths

\* the filesystems mounted; "nil" is the nil fs.FS
FSs == {"fs1", "fs2"}

\* strings.HasPrefix
HasPrefix(str, prefix) ==
    /\ Len(prefix) <= Len(str)
    /\ SubSeq(str, 1, Len(prefix)) = prefix

\* strings.Trim(p, "/")
RECURSIVE TrimSlashes(_)
TrimSlashes(str) ==
    IF str = <<>> THEN <<>>
    ELSE IF Head(str) = "/" THEN TrimSlashes(Tail(str))
    ELSE IF str[Len(str)] = "/" THEN TrimSlashes(SubSeq(str, 1, Len(str) - 1))
    ELSE str

\* the elements of a path between its slashes, empty ones included
RECURSIVE PathElems(_, _)
PathElems(str, cur) ==
    IF str = <<>> THEN <<cur>>
    ELSE IF Head(str) = "/" THEN <<cur>> \o PathElems(Tail(str), <<>>)
    ELSE PathElems(Tail(str), Append(cur, Head(str)))

\* path.Clean, the elements kept: empty and "." elements are dropped, ".."
\* removes the element before it, is dropped at the root of a rooted path
\* and kept at the start of any other
RECURSIVE CleanElems(_, _, _)
CleanElems(elems, rooted, out) ==
    IF elems = <<>> THEN out
    ELSE LET e == Head(elems)
         IN IF e = <<>> \/ e = <<".">>
            THEN CleanElems(Tail(elems), rooted, out)
            ELSE IF e = <<".", ".">>
            THEN IF out # <<>> /\ out[Len(out)] # <<".", ".">>
                 THEN CleanElems(Tail(elems), rooted, SubSeq(out, 1, Len(out) - 1))
                 ELSE IF rooted
                 THEN CleanElems(Tail(elems), rooted, out)
                 ELSE CleanElems(Tail(elems), rooted, Append(out, e))
            ELSE CleanElems(Tail(elems), rooted, Append(out, e))

\* the elements joined with slashes
RECURSIVE JoinElems(_)
JoinElems(elems) ==
    IF elems = <<>> THEN <<>>
    ELSE IF Len(elems) = 1 THEN Head(elems)
    ELSE Head(elems) \o <<"/">> \o JoinElems(Tail(elems))

\* path.Clean
pathClean(str) ==
    IF str = <<>> THEN <<".">>
    ELSE LET rooted == Head(str) = "/"
             body == JoinElems(CleanElems(PathElems(str, <<>>), rooted, <<>>))
         IN IF rooted THEN <<"/">> \o body
            ELSE IF body = <<>> THEN <<".">>
            ELSE body

\* cleanPath of MountFS: no leading or trailing slash, the root is "."
cleanPath(str) ==
    LET c == pathClean(TrimSlashes(str))
    IN IF c = <<"/">> \/ c = <<".">> THEN <<".">> ELSE c

\* CleanPath of FS: a leading slash, the root is "/"
CleanPath(str) ==
    IF str = <<>> \/ str = <<"/">> \/ str = <<".">> THEN <<"/">>
    ELSE LET c == pathClean(IF HasPrefix(str, <<"/">>) THEN str ELSE <<"/">> \o str)
         IN IF c = <<".">> THEN <<"/">> ELSE c

\* the mount point Mount and Unmount look at
MountPoint(type, raw) ==
    IF type = "MountFS"
    THEN LET c == cleanPath(raw) IN IF c = <<>> THEN <<".">> ELSE c
    ELSE CleanPath(raw)

\* the mount points the calls can name, after cleaning
MountFSPoints == {MountPoint("MountFS", raw) : raw \in RawPaths}
FSPoints == {MountPoint("FS", raw) : raw \in RawPaths}
CallPoints(type) == IF type = "MountFS" THEN MountFSPoints ELSE FSPoints

\* the keys of the mount table
Points(table) == {e[1] : e \in table}

\* mutant of ShadowsExisting: a mount point above an existing one is not
\* looked for
ShadowsExistingNever(type, point, existing) == FALSE

\* Mount: the new mount would shadow the existing one
ShadowsExisting(type, point, existing) ==
    /\ type = "FS" => point # <<"/">>
    /\ HasPrefix(existing, point \o <<"/">>)

\* Mount: the existing mount would shadow the new one
ShadowedByExisting(type, point, existing) ==
    /\ type = "FS" => existing # <<"/">>
    /\ HasPrefix(point, existing \o <<"/">>)

\* Mount: the loop over the existing mounts finds a conflict
Conflicts(type, table, point) ==
    \E existing \in Points(table) :
        \/ point = existing
        \/ ShadowsExisting(type, point, existing)
        \/ ShadowedByExisting(type, point, existing)

\* MountFS.Mount and FS.Mount after the mount point is cleaned: the error
\* returned and the table after
MountResult(type, table, point, f) ==
    IF f = "nil" THEN [ret |-> "ErrInvalid", mounts |-> table]
    ELSE IF Conflicts(type, table, point) THEN [ret |-> "ErrExist", mounts |-> table]
    ELSE [ret |-> "nil", mounts |-> table \cup {<<point, f>>}]

\* MountFS.Unmount and FS.Unmount after the mount point is cleaned: the
\* error returned and the table after
UnmountResult(type, table, point) ==
    IF point \notin Points(table) THEN [ret |-> "ErrNotExist", mounts |-> table]
    ELSE [ret |-> "nil", mounts |-> {e \in table : e[1] # point}]

\* m.Mount(mountPoint, filesystem), for every mount point of at most
\* MaxPathLen characters
Mount ==
    /\ fsType # "none"
    /\ \E point \in CallPoints(fsType), f \in FSs \cup {"nil"} :
        LET r == MountResult(fsType, mounts, point, f)
        IN /\ Cardinality(r.mounts) <= MaxMounts
           /\ mounts' = r.mounts
           /\ mountCall' = [op |-> "Mount", point |-> point, fs |-> f, ret |-> r.ret]
           /\ UNCHANGED <<frontVars, subVars, loopVars, dispatchVars, timers, runVars, fsType>>

\* m.Unmount(mountPoint), likewise
Unmount ==
    /\ fsType # "none"
    /\ \E point \in CallPoints(fsType) :
        LET r == UnmountResult(fsType, mounts, point)
        IN /\ mounts' = r.mounts
           /\ mountCall' = [op |-> "Unmount", point |-> point, fs |-> "nil", ret |-> r.ret]
           /\ UNCHANGED <<frontVars, subVars, loopVars, dispatchVars, timers, runVars, fsType>>

(***************************************************************************)
(* JSRuntime.Run and the shutdown hooks.                                   *)
(***************************************************************************)
\* the function RunProgram sends, and the callback of a timer the program set
ProgramFn == [k |-> "program", a |-> 0, b |-> 0]
CallbackFn == [k |-> "callback", a |-> 0, b |-> 0]

\* doAddShutdownHook / AddShutdownHook called n times: the hooks are numbered
\* in the order registered
AddShutdownHooks(hooks, n) ==
    hooks \o [i \in 1..n |-> Len(hooks) + i]

\* Run up to the compilation: in src/engine.go NewEventLoop,
\* `go eventLoop.Start()` and the two defers
RunBegin ==
    /\ Running
    /\ runner.pc = "idle"
    /\ \E kind \in {"own", "nodejs"} :
          /\ runner' = [runner EXCEPT !.pc = "compile", !.kind = kind]
          /\ starter' = IF kind = "own" THEN [starter EXCEPT ![1].pc = "spawned"]
                        ELSE starter
    /\ UNCHANGED <<frontVars, subVars, chanVars, queueVars, stopFnVars, stopper, panicked,
                   dispatchVars, timers, shutdownHooks, hookLog, mountVars>>

\* goja.Compile: on an error Run returns it, and the deferred functions run
RunCompile ==
    /\ Running
    /\ runner.pc = "compile"
    /\ \E ok \in BOOLEAN :
          runner' = IF ok THEN [runner EXCEPT !.pc = "runProgram"]
                    ELSE [runner EXCEPT !.pc = "hooks", !.err = "compile"]
    /\ UNCHANGED <<frontVars, subVars, loopVars, dispatchVars, timers, shutdownHooks,
                   hookLog, mountVars>>

\* eventLoop.RunProgram: el.events <- func() {...}, then wg.Wait()
RunProgramSend ==
    /\ Running
    /\ runner.pc = "runProgram" /\ runner.kind = "own"
    /\ Len(events) < EventsCap
    /\ events' = Append(events, ProgramFn)
    /\ runner' = [runner EXCEPT !.pc = "wgWait"]
    /\ UNCHANGED <<frontVars, subVars, chanVars, posted, log, stopFnVars, starter, stopper,
                   panicked, dispatchVars, timers, shutdownHooks, hookLog, mountVars>>

\* Start: fn() for the function of RunProgram: the program runs, registers
\* shutdown hooks, may set a timer whose callback registers one more, and
\* ends normally or with an error; wg.Done()
LoopRunProgram(g) ==
    /\ Running /\ rev = "loop"
    /\ starter[g].pc \in {"select", "drain"}
    /\ events # <<>>
    /\ Head(events).k = "program"
    /\ events' = Tail(events)
    /\ log' = Append(log, Head(events))
    /\ \E n \in 0..MaxHooks, end \in {"ok", "err"}, late \in {"none", "armed"} :
          /\ shutdownHooks' = AddShutdownHooks(shutdownHooks, n)
          /\ runner' = [runner EXCEPT !.prog = end, !.late = late]
    /\ UNCHANGED <<frontVars, subVars, chanVars, posted, stopFnVars, starter, stopper,
                   panicked, dispatchVars, timers, hookLog, mountVars>>

\* the timer the program set expires: its goroutine sends the callback
TimerSendCallback ==
    /\ Running
    /\ runner.kind = "own" /\ runner.late = "armed"
    /\ Len(events) < EventsCap
    /\ events' = Append(events, CallbackFn)
    /\ runner' = [runner EXCEPT !.late = "sent"]
    /\ UNCHANGED <<frontVars, subVars, chanVars, posted, log, stopFnVars, starter, stopper,
                   panicked, dispatchVars, timers, shutdownHooks, hookLog, mountVars>>

\* Start: fn() for the callback: it calls runtime.addShutdownHook
LoopRunCallback(g) ==
    /\ Running /\ rev = "loop"
    /\ starter[g].pc \in {"select", "drain"}
    /\ events # <<>>
    /\ Head(events).k = "callback"
    /\ events' = Tail(events)
    /\ log' = Append(log, Head(events))
    /\ shutdownHooks' = AddShutdownHooks(shutdownHooks, 1)
    /\ runner' = [runner EXCEPT !.late = "ran"]
    /\ UNCHANGED <<frontVars, subVars, chanVars, posted, stopFnVars, starter, stopper,
                   panicked, dispatchVars, timers, hookLog, mountVars>>

\* RunProgram: wg.Wait() returns; on an error exitCode = -1 and Run returns it
RunProgramReturn ==
    /\ Running
    /\ runner.pc = "wgWait"
    /\ runner.prog # "none"
    /\ runner' = [runner EXCEPT
          !.pc = "hooks",
          !.err = IF runner.prog = "err" THEN "run" ELSE "none",
          !.exitCode = IF runner.prog = "err" THEN -1 ELSE 0]
    /\ UNCHANGED <<frontVars, subVars, loopVars, dispatchVars, timers, shutdownHooks,
                   hookLog, mountVars>>

\* src/engine/engine.go: jr.eventLoop.Run(func(vm) {... vm.RunProgram ...}):
\* the program runs on the loop of goja_nodejs
NodeRunProgram ==
    /\ Running
    /\ runner.pc = "runProgram" /\ runner.kind = "nodejs"
    /\ \E n \in 0..MaxHooks, end \in {"ok", "err"}, late \in {"none", "armed"} :
          /\ shutdownHooks' = AddShutdownHooks(shutdownHooks, n)
          /\ runner' = [runner EXCEPT
                !.pc = "nodeJobs", !.prog = end, !.late = late,
                !.err = IF end = "err" THEN "run" ELSE "none",
                !.exitCode = IF end = "err" THEN -1 ELSE 0]
    /\ UNCHANGED <<frontVars, subVars, loopVars, dispatchVars, timers, hookLog, mountVars>>

\* src/engine/engine.go: eventLoop.Run returns when no job is left: the
\* callback of a timer has run by then
NodeJobsDone ==
    /\ Running
    /\ runner.pc = "nodeJobs"
    /\ shutdownHooks' = IF runner.late = "armed"
                        THEN AddShutdownHooks(shutdownHooks, 1) ELSE shutdownHooks
    /\ runner' = [runner EXCEPT
          !.pc = "hooks", !.late = IF @ = "armed" THEN "ran" ELSE @]
    /\ UNCHANGED <<frontVars, subVars, loopVars, dispatchVars, timers, hookLog, mountVars>>

\* Run, deferred: slices.Reverse(jr.shutdownHooks)
HookOrder(hooks) == Reverse(hooks)

\* Run, deferred: the reverse, and the range over the hooks begins
RunHooksBegin ==
    /\ Running
    /\ runner.pc = "hooks"
    /\ shutdownHooks' = HookOrder(shutdownHooks)
    /\ runner' = [runner EXCEPT !.pc = "hooking", !.todo = HookOrder(shutdownHooks)]
    /\ UNCHANGED <<frontVars, subVars, loopVars, dispatchVars, timers, hookLog, mountVars>>

\* Run, deferred: hook()
RunHook ==
    /\ Running
    /\ runner.pc = "hooking"
    /\ runner.todo # <<>>
    /\ hookLog' = Append(hookLog, Head(runner.todo))
    /\ runner' = [runner EXCEPT !.todo = Tail(@)]
    /\ UNCHANGED <<frontVars, subVars, loopVars, dispatchVars, timers, shutdownHooks,
                   mountVars>>

\* Run, deferred: the range has ended; in src/engine.go the deferred
\* eventLoop.Stop() is next, in src/engine/engine.go Run returns
RunHooksEnd ==
    /\ Running
    /\ runner.pc = "hooking"
    /\ runner.todo = <<>>
    /\ runner' = [runner EXCEPT !.pc = IF runner.kind = "own" THEN "stop" ELSE "returned"]
    /\ UNCHANGED <<frontVars, subVars, loopVars, dispatchVars, timers, shutdownHooks,
                   hookLog, mountVars>>

\* src/engine.go: the deferred eventLoop.Stop() has returned, Run returns
RunReturn ==
    /\ Running
    /\ runner.pc = "stop"
    /\ stopper[1].pc \in {"done", "notStarted"}
    /\ runner' = [runner EXCEPT !.pc = "returned"]
    /\ UNCHANGED <<frontVars, subVars, loopVars, dispatchVars, timers, shutdownHooks,
                   hookLog, mountVars>>

(***************************************************************************)
(* Specifications.                                                         *)
(***************************************************************************)
\* NewEventLoop: no listener yet
SubIdle == subscribers = NoSubscribers /\ subCall = NoSubCall

\* NewEventLoop: the loop is not started, nothing is queued or registered
LoopIdle ==
    /\ globalEventStopOnce = 0 /\ globalEventStopCh = 0 /\ globalEventCloseCh = 0
    /\ closedChs = {} /\ doneOnces = {}
    /\ events = <<>> /\ posted = 0 /\ log = <<>>
    /\ globalEventStops = <<>> /\ stopLog = <<>>
    /\ starter = [g \in Starters |-> NoStarter]
    /\ stopper = [s \in Stoppers |-> NoStopper]
    /\ panicked = "none"

\* no publish call has been made
DispatchIdle == dispatcher = <<>> /\ dispatched = <<>>

\* SetTimeout has not been called
TimersIdle == timers = [t \in TimerObjs |-> NoTimer]

\* JSRuntime.Run has not been called
RunIdle == runner = NoRunner /\ shutdownHooks = <<>> /\ hookLog = <<>>

\* no mount filesystem is in use
MountIdle == fsType = "none" /\ mounts = {} /\ mountCall = NoMountCall

\* nothing but the subscribers and the loop is in use
ExtIdle == DispatchIdle /\ TimersIdle /\ RunIdle /\ MountIdle

\* no event code is in use
RuntimeIdle == rev = "none" /\ SubIdle /\ LoopIdle /\ ExtIdle

ParserIdle ==
    /\ input = <<>> /\ parsed = NoParse /\ words = <<>> /\ pipeline = NoPipeline
    /\ ppc = "off"

ShellIdle ==
    /\ cmd = NoCmd /\ si = 0 /\ pi = 0 /\ ret = NoRet /\ runVal = -1
    /\ ran = <<>> /\ lastVal = NoVal

\* a script that calls runtime.exec, with any prior signal dispositions
InitLaunch ==
    /\ sig \in [Sigs -> Disp]
    /\ termFg = ShellPgid
    /\ launch = [l \in Slots |-> NoLaunch]
    /\ shPc = "script"
    /\ calls = 0
    /\ variant = "none"
    /\ ShellIdle
    /\ RuntimeIdle
    /\ ParserIdle

NextLaunch ==
    \/ ScriptExec
    \/ ScriptExecReturn
    \/ LaunchStep

SpecLaunch == InitLaunch /\ [][NextLaunch]_vars

\* exec0 is straight-line code on the calling goroutine: each statement is
\* eventually executed, and ex.Wait() returns once the child has exited
SpecLaunchFair == SpecLaunch /\ WF_vars(LaunchStep)

\* the interactive shell of cmd/jsh, in either revision of shell.go
Init ==
    /\ sig = [s \in Sigs |-> "default"]
    /\ termFg = ShellPgid
    /\ launch = [l \in Slots |-> NoLaunch]
    /\ shPc = "prompt"
    /\ calls = 0
    /\ variant \in {"v1", "v3"}
    /\ ShellIdle
    /\ RuntimeIdle
    /\ ParserIdle

Next ==
    \/ ShellRead
    \/ ShellReadText
    \/ ShellReadError
    \/ ProcessExit
    \/ ProcessPwd
    \/ ProcessExec
    \/ ProcessExecReturned
    \/ ProcessEnd
    \/ RunAfterProcess
    \/ LaunchStep

Spec == Init /\ [][Next]_vars

\* the parser applied to every line of at most MaxLen characters
InitParse ==
    /\ sig = [s \in Sigs |-> "default"]
    /\ termFg = ShellPgid
    /\ launch = [l \in Slots |-> NoLaunch]
    /\ shPc = "off"
    /\ calls = 0
    /\ variant = "none"
    /\ ShellIdle
    /\ RuntimeIdle
    /\ input \in UNION {[1..n -> Alphabet] : n \in 0..MaxLen}
    /\ parsed = NoParse /\ words = <<>> /\ pipeline = NoPipeline
    /\ ppc = "input"

NextParse == ParseCommand

SpecParse == InitParse /\ [][NextParse]_vars

StageAlphabet == {"a", " ", ">", "<", "\"", "'"}

\* tokenize and parsePipeline applied to every stage of at most MaxStageLen
\* characters
InitPipeline ==
    /\ sig = [s \in Sigs |-> "default"]
    /\ termFg = ShellPgid
    /\ launch = [l \in Slots |-> NoLaunch]
    /\ shPc = "off"
    /\ calls = 0
    /\ variant = "none"
    /\ ShellIdle
    /\ RuntimeIdle
    /\ input \in UNION {[1..n -> StageAlphabet] : n \in 0..MaxStageLen}
    /\ parsed = NoParse /\ words = <<>> /\ pipeline = NoPipeline
    /\ ppc = "input"

NextPipeline ==
    \/ Tokenize
    \/ ParsePipeline

SpecPipeline == InitPipeline /\ [][NextPipeline]_vars

\* what follows the quoted argument on the line
Tails == {<<>>, <<";", "b">>, <<"&", "&", "b">>, <<"|", "b">>, <<" ", "b">>}

\* the texts that can stand between two quotes q
QuotedTexts(q) ==
    UNION {[1..n -> ({"a", " ", "|", ";", "&"} \cup QuoteChars) \ {q}] :
              n \in 1..MaxQuoted}

\* lines of a command with one quoted argument
QuotedLines ==
    UNION {{<<"a", " ", q>> \o c \o <<q>> \o t :
                c \in QuotedTexts(q), t \in Tails} : q \in QuoteChars}

\* parseCommand, splitStatements and splitPipes applied to lines with a
\* quoted argument
InitQuoted ==
    /\ sig = [s \in Sigs |-> "default"]
    /\ termFg = ShellPgid
    /\ launch = [l \in Slots |-> NoLaunch]
    /\ shPc = "off"
    /\ calls = 0
    /\ variant = "none"
    /\ ShellIdle
    /\ RuntimeIdle
    /\ input \in QuotedLines
    /\ parsed = NoParse /\ words = <<>> /\ pipeline = NoPipeline
    /\ ppc = "input"

NextQuoted ==
    \/ ParseCommand
    \/ SplitStatements
    \/ SplitPipes

SpecQuoted == InitQuoted /\ [][NextQuoted]_vars

\* no launch, shell or parser is in use
FrontIdle ==
    /\ sig = [s \in Sigs |-> "default"]
    /\ termFg = ShellPgid
    /\ launch = [l \in Slots |-> NoLaunch]
    /\ shPc = "off"
    /\ calls = 0
    /\ variant = "none"
    /\ ShellIdle
    /\ ParserIdle

\* calls on the subscribers of one object, in either revision
InitSubscribers ==
    /\ FrontIdle
    /\ rev \in {"loop", "global"}
    /\ SubIdle /\ LoopIdle /\ ExtIdle

NextSubscribers ==
    \/ CallSetSubscriber
    \/ CallAddSubscriber
    \/ CallUnsubscribeAll

SpecSubscribers == InitSubscribers /\ [][NextSubscribers]_vars

\* Start and Stop called from several goroutines, in either revision
InitStartStop ==
    /\ FrontIdle
    /\ rev \in {"loop", "global"}
    /\ SubIdle /\ LoopIdle /\ ExtIdle

NextStartStop ==
    \/ \E g \in Starters :
          \/ GoStart(g)
          \/ StartEnter(g)
          \/ LoopStopSignal(g)
          \/ DrainDone(g)
          \/ CallStop(g)
          \/ StartDeferClose(g)
          \/ StartDeferOnce(g)
          \/ EventLoopStartCheck(g)
          \/ EventLoopStartOnce(g)
          \/ EventLoopStartStopCh(g)
          \/ EventLoopStartCloseCh(g)
          \/ EventLoopStartSelect(g)
          \/ EventLoopStartWake(g)
    \/ \E s \in Stoppers :
          \/ StopEnter(s)
          \/ StopOnce(s)
          \/ StopWait(s)
          \/ EventLoopStopCheck(s)
          \/ EventLoopStopOnce(s)
          \/ EventLoopStopReceive(s)
    \/ RegisterStop

SpecStartStop == InitStartStop /\ [][NextStartStop]_vars

\* the loop of the EventLoop type, started by one goroutine, with functions
\* sent to it, stop functions registered, and Stop called from several
\* goroutines
InitLoop ==
    /\ FrontIdle
    /\ rev = "loop"
    /\ SubIdle /\ LoopIdle /\ ExtIdle

NextLoop ==
    \/ \E g \in {1} :
          \/ GoStart(g)
          \/ StartEnter(g)
          \/ LoopStopSignal(g)
          \/ LoopRunPlain(g)
          \/ DrainDone(g)
          \/ CallStop(g)
          \/ StartDeferClose(g)
          \/ StartDeferOnce(g)
    \/ \E s \in Stoppers :
          \/ StopEnter(s)
          \/ StopOnce(s)
          \/ StopWait(s)
    \/ RegisterStop
    \/ Post

SpecLoop == InitLoop /\ [][NextLoop]_vars

\* the loop of the EventLoop type with listeners added and the event
\* dispatched from outside and from inside the listeners
InitDispatch ==
    /\ FrontIdle
    /\ rev = "loop"
    /\ SubIdle /\ LoopIdle /\ ExtIdle

NextDispatch ==
    \/ \E g \in {1} :
          \/ GoStart(g)
          \/ StartEnter(g)
          \/ LoopRunListener(g)
          \/ LoopSend(g)
    \/ \E l \in Callables : AddEventListener(l)
    \/ DispatchEvent
    \/ DispatcherSend

SpecDispatch == InitDispatch /\ [][NextDispatch]_vars

\* the loop of the EventLoop type with timers set and cleared
InitTimer ==
    /\ FrontIdle
    /\ rev = "loop"
    /\ SubIdle /\ LoopIdle /\ ExtIdle

NextTimer ==
    \/ \E g \in {1} :
          \/ GoStart(g)
          \/ StartEnter(g)
          \/ LoopRunStart(g)
          \/ LoopRunCancel(g)
          \/ LoopRunExpire(g)
    \/ \E t \in Timers :
          \/ SetTimeout(t)
          \/ TimerSelect(t)
          \/ TimerElapse(t)
          \/ TimerExpire(t)
    \/ \E t \in TimerObjs : ClearTimeout(t)

SpecTimer == InitTimer /\ [][NextTimer]_vars

\* NewMountFS or NewFS, then Mount and Unmount calls
InitMount ==
    /\ FrontIdle
    /\ rev = "none"
    /\ SubIdle /\ LoopIdle
    /\ DispatchIdle /\ TimersIdle /\ RunIdle
    /\ fsType \in {"MountFS", "FS"}
    /\ mounts = {}
    /\ mountCall = NoMountCall

NextMount ==
    \/ Mount
    \/ Unmount

SpecMount == InitMount /\ [][NextMount]_vars

\* a JSRuntime on which Run is called once
InitRun ==
    /\ FrontIdle
    /\ rev = "loop"
    /\ SubIdle /\ LoopIdle
    /\ DispatchIdle /\ TimersIdle /\ MountIdle
    /\ runner = [NoRunner EXCEPT !.pc = "idle"]
    /\ shutdownHooks = <<>> /\ hookLog = <<>>

NextRun ==
    \/ RunBegin
    \/ RunCompile
    \/ RunProgramSend
    \/ RunProgramReturn
    \/ NodeRunProgram
    \/ NodeJobsDone
    \/ RunHooksBegin
    \/ RunHook
    \/ RunHooksEnd
    \/ RunReturn
    \/ TimerSendCallback
    \/ \E g \in {1} :
          \/ StartEnter(g)
          \/ LoopRunProgram(g)
          \/ LoopRunCallback(g)
          \/ LoopStopSignal(g)
          \/ DrainDone(g)
          \/ StartDeferClose(g)
          \/ StartDeferOnce(g)
    \/ \E s \in {1} :
          \/ StopEnter(s)
          \/ StopOnce(s)
          \/ StopWait(s)

SpecRun == InitRun /\ [][NextRun]_vars

(***************************************************************************)
(* The foreground launch: exec0.                                           *)
(***************************************************************************)
Returned(l) == launch[l].phase = "returned"

\* the signal-ignore window of a launch: from signal.Ignore to the reset
InWindow(l) ==
    launch[l].phase \in {"ignored", "started", "granted", "waited", "restored"}

C5_StartFailureSkipsTerminal ==
    \A l \in Slots :
        launch[l].start = "failed" =>
            /\ Returned(l) /\ launch[l].result = ErrVal
            /\ launch[l].ioctls = 0
            /\ launch[l].grant = "none" /\ launch[l].restore = "none"
            /\ termFg = launch[l].termBefore

C5_Witness ==
    \E l \in Slots : launch[l].start = "failed" /\ Returned(l) /\ calls = MaxCalls

\* C6 (as claimed): on every exit path of a launch the dispositions of the
\* three job-control signals after the launch are what they were before it.
C6_DispositionsRestored ==
    \A l \in Slots : Returned(l) => sig = launch[l].sigBefore

\* C7: at most one launch is in flight in the shell process, and the
\* signal-ignore windows of two launches never overlap.
C7_OneLaunchInFlight ==
    /\ Cardinality({l \in Slots : launch[l].phase # "none"}) <= 1
    /\ Cardinality({l \in Slots : InWindow(l)}) <= 1

C7_Witness ==
    /\ \E l \in Slots : InWindow(l)
    /\ Len(ran) >= 2
    /\ lastVal.kind = "int"

\* the state of the launch state machine a frame is in
LState(f) ==
    CASE f.phase = "none" \/ f.start = "refused" -> "None"
      [] f.phase \in {"created", "ignored"} -> "Created"
      [] f.phase = "started" -> "Started"
      [] f.phase = "granted" -> "ForegroundGranted"
      [] f.phase = "waited" /\ f.result.kind # "err" -> "Waited"
      [] f.phase = "restored" /\ f.result.kind # "err" -> "ForegroundRestored"
      [] f.phase = "returned" /\ f.result.kind # "err" -> "Done"
      [] OTHER -> "Failed"

LTransitions ==
    {<<"None", "Created">>, <<"Created", "Started">>, <<"Created", "Failed">>,
     <<"Started", "ForegroundGranted">>, <<"ForegroundGranted", "Waited">>,
     <<"ForegroundGranted", "Failed">>, <<"Waited", "ForegroundRestored">>,
     <<"ForegroundRestored", "Done">>, <<"Done", "None">>, <<"Failed", "None">>}

\* C8: every launch follows Created -> Started -> ForegroundGranted ->
\* Waited -> ForegroundRestored -> Done; Failed is absorbing and is entered
\* only from Created (start failure, no ioctl issued) or from
\* ForegroundGranted (wait error, the restore still issued before the
\* return); and every launch eventually returns, Done or Failed.
C8_LaunchStateMachine ==
    /\ [][\A l \in Slots :
            /\ \/ LState(launch[l]') = LState(launch[l])
               \/ <<LState(launch[l]), LState(launch[l]')>> \in LTransitions
            /\ (LState(launch[l]) = "Failed" /\ launch[l]'.phase # "none")
                  => LState(launch[l]') = "Failed"
            /\ (launch[l]'.phase = "returned" /\ LState(launch[l]') = "Failed")
                  => IF launch[l]'.start = "ok"
                     THEN launch[l]'.wait = "error" /\ launch[l]'.restore # "none"
                     ELSE launch[l]'.ioctls = 0]_vars
    /\ \A l \in Slots :
            (launch[l].phase \notin {"none", "returned"}) ~> Returned(l)

C8_Witness ==
    \E l \in Slots :
        /\ Returned(l) /\ LState(launch[l]) = "Failed"
        /\ launch[l].start = "ok" /\ launch[l].restore = "failed"

(***************************************************************************)
(* The statement interpreter: process.                                     *)
(***************************************************************************)
\* every stage position of a Command
StagePositions(c) ==
    UNION {{<<i, j>> : j \in 1..Len(c.Statements[i].Pipelines)} :
               i \in 1..Len(c.Statements)}

RanSet == {ran[k] : k \in 1..Len(ran)}

HasExitVerb(c) ==
    \E p \in StagePositions(c) :
        c.Statements[p[1]].Pipelines[p[2]].Command \in {"exit", "quit"}

\* C2: when a stage of a statement whose Operator is "&&" returns a non-zero
\* exit code, process returns that code with continueShell = true, and no
\* further stage is run before Shell.Run prompts again.
C2_AndShortCircuit ==
    [][/\ \A l \in Slots :
            (/\ shPc = "exec" /\ Returned(l)
             /\ launch[l].result.kind = "int" /\ launch[l].result.n # 0
             /\ cmd.Statements[si].Operator = "&&")
            => (/\ shPc' = "processed"
                /\ ret' = [code |-> launch[l].result.n, alive |-> TRUE]
                /\ ran' = ran)
       /\ (shPc = "processed" /\ ret.alive)
            => (shPc' = "prompt" /\ launch' = launch)]_vars

C2_Witness ==
    /\ shPc = "processed" /\ ret.alive /\ ret.code # 0
    /\ pi < Len(cmd.Statements[si].Pipelines)
    /\ si < Len(cmd.Statements)

\* C3: when process reaches a stage whose Command is "exit" or "quit" it
\* returns (0, false) at once, running nothing more, and Shell.Run returns.
C3_ExitReturnsAtOnce ==
    [][/\ (/\ shPc = "process" /\ si <= Len(cmd.Statements)
           /\ cmd.Statements[si].Pipelines[pi].Command \in {"exit", "quit"})
            => (/\ shPc' = "processed"
                /\ ret' = [code |-> 0, alive |-> FALSE]
                /\ ran' = ran /\ launch' = launch)
       /\ (shPc = "processed" /\ ~ret.alive)
            => (shPc' = "runReturned" /\ ran' = ran /\ launch' = launch)]_vars

C3_Witness ==
    /\ shPc = "processed" /\ ~ret.alive
    /\ cmd.Statements[si].Pipelines[pi].Command = "quit"
    /\ lastVal.kind = "int" /\ lastVal.n # 0
    /\ si < Len(cmd.Statements)

\* C4 (as claimed): a line without exit or quit never ends the shell loop:
\* process returns to Shell.Run, which prompts again, whatever failed.
C4_OnlyExitEndsTheLoop ==
    (si >= 1 /\ ~HasExitVerb(cmd)) => shPc \notin {"panicked", "runReturned"}

\* C9: when process has run every stage of every statement, it returns
\* (0, true), whatever exit codes the stages returned.
C9_EndReturnsZero ==
    (shPc = "processed" /\ ret.alive /\ RanSet = StagePositions(cmd))
        => ret = [code |-> 0, alive |-> TRUE]

C9_Witness ==
    /\ shPc = "processed" /\ RanSet = StagePositions(cmd)
    /\ Len(ran) >= 2
    /\ lastVal.kind = "int" /\ lastVal.n # 0

(***************************************************************************)
(* The parser.                                                             *)
(***************************************************************************)
Letters == {"a", "b"}

LettersOf(str) == SelectSeq(str, LAMBDA c : c \in Letters)

SemiPos == {i \in 1..Len(input) : input[i] = ";"}

\* the position of the k-th ';' of the input
KthSemi(k) ==
    CHOOSE i \in SemiPos : Cardinality({j \in SemiPos : j < i}) = k - 1

\* the k-th of the segments the ';' characters cut the input into
Segment(k) ==
    SubSeq(input,
           IF k = 1 THEN 1 ELSE KthSemi(k - 1) + 1,
           IF k = Cardinality(SemiPos) + 1 THEN Len(input) ELSE KthSemi(k) - 1)

\* the input is simple commands joined by ';': words and spaces only, and a
\* word on both sides of every ';'
SimpleCommandsJoined ==
    /\ \A i \in 1..Len(input) : input[i] \in Letters \cup {" ", ";"}
    /\ \A k \in 1..(Cardinality(SemiPos) + 1) : LettersOf(Segment(k)) # <<>>

RECURSIVE Flatten(_)
Flatten(seqs) == IF seqs = <<>> THEN <<>> ELSE Head(seqs) \o Flatten(Tail(seqs))

\* C10: for an input of simple commands joined by ';' parseCommand gives
\* one Statement per command, in input order, each of one pipeline holding
\* the words of its command, with Operator ";" on every statement but the
\* last, whose Operator is empty.
C10_SemicolonStatements ==
    (ppc = "parsed" /\ SimpleCommandsJoined) =>
        /\ parsed.Raw = input
        /\ Len(parsed.Statements) = Cardinality(SemiPos) + 1
        /\ \A k \in 1..Len(parsed.Statements) :
            LET st == parsed.Statements[k] IN
            /\ st.Operator = IF k < Len(parsed.Statements) THEN ";" ELSE ""
            /\ Len(st.Pipelines) = 1
            /\ st.Pipelines[1].Command \o Flatten(st.Pipelines[1].Args)
                  = LettersOf(Segment(k))
            /\ st.Pipelines[1].Stdin = NoRedirect
            /\ st.Pipelines[1].Stdout = NoRedirect

C10_Witness ==
    /\ ppc = "parsed" /\ SimpleCommandsJoined
    /\ Len(parsed.Statements) = 2
    /\ parsed.Statements[1].Operator = ";"
    /\ parsed.Statements[1].Pipelines[1].Command = <<"a">>
    /\ parsed.Statements[2].Pipelines[1].Command = <<"b">>
    /\ \E i \in 1..Len(input) : input[i] = " "

NoQuotes == \A i \in 1..Len(input) : input[i] \notin QuoteChars

\* the '&' characters directly before position i
AmpsBefore(i) ==
    Cardinality({j \in 1..(i - 1) : \A k \in j..(i - 1) : input[k] = "&"})

\* the separator that starts at position i of a line without quotes: a ';',
\* or the first '&' of a pair, pairs being counted from the start of a run
SepAt(i) ==
    IF input[i] = ";" THEN ";"
    ELSE IF /\ input[i] = "&" /\ i < Len(input) /\ input[i + 1] = "&"
            /\ AmpsBefore(i) % 2 = 0
    THEN "&&" ELSE ""

SepPos == {i \in 1..Len(input) : SepAt(i) # ""}

KthSep(k) == CHOOSE i \in SepPos : Cardinality({j \in SepPos : j < i}) = k - 1

\* the text between the (k-1)-th and the k-th separator
SepSegment(k) ==
    SubSeq(input,
           IF k = 1 THEN 1 ELSE KthSep(k - 1) + Len(SepAt(KthSep(k - 1))),
           IF k = Cardinality(SepPos) + 1 THEN Len(input) ELSE KthSep(k) - 1)

\* the segment holds a word: something else than blanks and '|'
HasWord(seg) == \E i \in 1..Len(seg) : seg[i] \notin {" ", "|"}

\* C11: every Statement but the last carries ";" or "&&", the last carries
\* the empty Operator even when the line ends with a separator; and on a
\* line without quotes whose statements all hold a word, the k-th Statement
\* carries the k-th separator of the line.
C11_OperatorFollows ==
    ppc = "parsed" =>
        LET n == Len(parsed.Statements)
            seps == Cardinality(SepPos)
        IN /\ n > 0 => parsed.Statements[n].Operator = ""
           /\ \A k \in 1..(n - 1) : parsed.Statements[k].Operator \in {";", "&&"}
           /\ (NoQuotes /\ \A k \in 1..seps : HasWord(SepSegment(k))) =>
                /\ n = IF HasWord(SepSegment(seps + 1)) THEN seps + 1 ELSE seps
                /\ \A k \in 1..(n - 1) :
                      parsed.Statements[k].Operator = SepAt(KthSep(k))

C11_Witness ==
    /\ ppc = "parsed" /\ NoQuotes
    /\ input # <<>> /\ input[Len(input)] = ";"
    /\ Len(parsed.Statements) = 2
    /\ parsed.Statements[1].Operator = ";"
    /\ parsed.Statements[2].Operator = ""

OperatorChars == {">", "<"}

IsWord(tok) == tok # <<>> /\ \A i \in 1..Len(tok) : tok[i] \notin OperatorChars

\* the positions where a maximal run of characters of set cs starts
RunStarts(cs) ==
    {i \in 1..Len(input) : input[i] \in cs /\ (i = 1 \/ input[i - 1] \notin cs)}

\* the length of the run of characters of cs that starts at position i
RunLen(cs, i) ==
    Cardinality({j \in i..Len(input) : \A k \in i..j : input[k] \in cs})

CountOf(seq, x) == Cardinality({i \in 1..Len(seq) : seq[i] = x})

\* C15: on a stage without quotes the tokens are the words and the redirect
\* operators of the stage in order, each operator a token of its own also
\* when it touches a word, and a run of '>' is cut into '>>' tokens from its
\* start, a single '>' token being left only by a run of odd length; a
\* quoted text is one token with its operator characters kept.
C15_OperatorsAreTokens ==
    ppc = "tokenize" =>
        /\ NoQuotes =>
            /\ Flatten(words) = SelectSeq(input, LAMBDA c : c # " ")
            /\ \A k \in 1..Len(words) : words[k] \in RedirectOps \/ IsWord(words[k])
            /\ Cardinality({k \in 1..Len(words) : IsWord(words[k])})
                  = Cardinality(RunStarts({"a"}))
            /\ CountOf(words, <<">">>)
                  = Cardinality({i \in RunStarts({">"}) : RunLen({">"}, i) % 2 = 1})
        /\ \A q \in QuoteChars :
            (/\ Len(input) >= 2 /\ input[1] = q /\ input[Len(input)] = q
             /\ \A i \in 2..(Len(input) - 1) : input[i] # q) =>
                words = IF Len(input) = 2 THEN <<>>
                        ELSE <<SubSeq(input, 2, Len(input) - 1)>>

C15_Witness ==
    /\ ppc = "tokenize"
    /\ input = <<"a", ">", ">", "a">>
    /\ words = <<<<"a">>, <<">", ">">>, <<"a">>>>

\* the part each token of a stage plays: the first is the command, the token
\* after a redirect operator is its target, any other redirect operator is
\* an operator, the rest are arguments
RoleOf(toks) ==
    LET role[i \in 1..Len(toks)] ==
            IF i = 1 THEN "cmd"
            ELSE IF role[i - 1] = "op" THEN "target"
            ELSE IF toks[i] \in RedirectOps THEN "op"
            ELSE "arg"
    IN role

\* the tokens that play the part of an argument, in order
ArgTokens(toks) ==
    LET role == RoleOf(toks)
        idx == SelectSeq([i \in 1..Len(toks) |-> i], LAMBDA i : role[i] = "arg")
    IN [k \in 1..Len(idx) |-> toks[idx[k]]]

\* the redirects the operators of set ops, each with its target, stand for
RedirectsOf(toks, ops) ==
    {[Type |-> RedirectType(toks[i]), Target |-> toks[i + 1]] :
        i \in {j \in 1..(Len(toks) - 1) : RoleOf(toks)[j] = "op" /\ toks[j] \in ops}}

Attached(r, rs) == IF rs = {} THEN r = NoRedirect ELSE r \in rs

\* C14: the first token of a stage is its Command; a later redirect operator
\* takes the next token as Target and is attached to Stdin ('<') or Stdout
\* ('>', '>>') with its own Type; every other token is an argument, in
\* order, so that no operator in operator position and no target is one.
C14_PipelineFields ==
    (ppc = "parsePipeline" /\ tokenize(input) # <<>>) =>
        LET toks == tokenize(input) IN
        /\ pipeline.Command = toks[1]
        /\ pipeline.Args = ArgTokens(toks)
        /\ Attached(pipeline.Stdin, RedirectsOf(toks, {<<"<">>}))
        /\ Attached(pipeline.Stdout, RedirectsOf(toks, {<<">">>, <<">", ">">>}))
        /\ pipeline.Stderr = NoRedirect

C14_Witness ==
    /\ ppc = "parsePipeline"
    /\ pipeline.Command = <<"a">>
    /\ pipeline.Args = <<>>
    /\ pipeline.Stdin = [Type |-> "<", Target |-> <<"a">>]
    /\ pipeline.Stdout = [Type |-> ">", Target |-> <<"a">>]

\* the stage names a command and ends with a redirect operator that has no
\* target
DanglingRedirect(toks) ==
    Len(toks) >= 2 /\ IsWord(toks[1]) /\ RoleOf(toks)[Len(toks)] = "op"

CloseQuote ==
    CHOOSE i \in 4..Len(input) :
        input[i] = input[3] /\ \A j \in 4..(i - 1) : input[j] # input[3]

QuotedContent == SubSeq(input, 4, CloseQuote - 1)

\* the line up to the closing quote, and what follows it
QuotedPart == SubSeq(input, 1, CloseQuote)
TailPart == SubSeq(input, CloseQuote + 1, Len(input))

TailSplitsStatement == TailPart # <<>> /\ TailPart[1] \in {";", "&"}
TailSplitsPipe == TailPart # <<>> /\ TailPart[1] = "|"

\* C12: for a line whose argument is wrapped in matching quotes and holds
\* '|', ';', '&&', blanks or the other quote character, splitStatements and
\* splitPipes cut the line only after the closing quote, and parseCommand
\* gives the argument as one Args element, the text between the quotes.
C12_QuotedArgument ==
    /\ ppc = "splitStatements" =>
          /\ Len(words) = IF TailSplitsStatement THEN 2 ELSE 1
          /\ words[1] = IF TailSplitsStatement THEN QuotedPart ELSE input
    /\ ppc = "splitPipes" =>
          /\ Len(words) = IF TailSplitsPipe THEN 2 ELSE 1
          /\ words[1] = IF TailSplitsPipe THEN QuotedPart ELSE input
    /\ ppc = "parsed" =>
          /\ Len(parsed.Statements) = IF TailSplitsStatement THEN 2 ELSE 1
          /\ Len(parsed.Statements[1].Pipelines) = IF TailSplitsPipe THEN 2 ELSE 1
          /\ parsed.Statements[1].Pipelines[1].Command = <<"a">>
          /\ parsed.Statements[1].Pipelines[1].Args
                = IF TailPart = <<" ", "b">> THEN <<QuotedContent, <<"b">>>>
                  ELSE <<QuotedContent>>

C12_Witness ==
    /\ ppc = "parsed"
    /\ QuotedContent = <<"&", "&">>
    /\ TailPart = <<"|", "b">>
    /\ parsed.Statements[1].Pipelines[1].Args = <<<<"&", "&">>>>
    /\ parsed.Statements[1].Pipelines[2].Command = <<"b">>

(***************************************************************************)
(* The empty line.                                                         *)
(***************************************************************************)
\* C13: the empty line parses to a Command with the empty Raw and no
\* Statement, and process runs no stage for it and returns (0, true).
C13_EmptyLine ==
    (ppc = "process" /\ input = <<>>) =>
        /\ parsed = [Raw |-> <<>>, Statements |-> <<>>]
        /\ cmd.Statements = <<>>
        /\ ran = <<>>
        /\ \A l \in Slots : launch[l] = NoLaunch
        /\ shPc \in {"process", "processed"}
        /\ shPc = "processed" => ret = [code |-> 0, alive |-> TRUE]

C13_Witness ==
    /\ ppc = "process" /\ input = <<>>
    /\ shPc = "processed"
    /\ ret = [code |-> 0, alive |-> TRUE]
    /\ ran = <<>>

(***************************************************************************)
(* The launch after a failed grant, its result, and the order of its       *)
(* steps.                                                                  *)
(***************************************************************************)
\* C18: a launch whose granting request failed is not aborted: when it has
\* returned the child has been waited for, the result is the one ex.Wait()
\* gave (the exit status of a child that exited), and the restoring request
\* has been issued after the wait, so that both requests were made.
C18_GrantFailureGoesOn ==
    \A l \in Slots :
        /\ (launch[l].grant = "failed" /\ launch[l].phase = "granted") =>
              termFg = launch[l].termBefore
        /\ (Returned(l) /\ launch[l].grant = "failed") =>
              /\ launch[l].wait \in {"exit", "signal", "error"}
              /\ launch[l].wait = "exit" =>
                    launch[l].result \in {IntVal(n) : n \in 0..MaxExit}
              /\ launch[l].wait = "signal" => launch[l].result = IntVal(-1)
              /\ launch[l].restore \in {"ok", "failed"}
              /\ launch[l].ioctls = 2

C18_Witness ==
    \E l \in Slots :
        /\ Returned(l)
        /\ launch[l].grant = "failed"
        /\ launch[l].wait = "exit"
        /\ launch[l].result = IntVal(1)
        /\ launch[l].restore = "ok"
        /\ termFg = ShellPgid

\* C19: the result of a launch whose child started is a number: the child's
\* status when it exited, 0 only then and only for status 0, and a number
\* outside the exit statuses when the child did not exit normally.
C19_ResultIsExitCode ==
    \A l \in Slots :
        (Returned(l) /\ launch[l].start = "ok") =>
            /\ launch[l].result.kind = "int"
            /\ launch[l].wait = "exit" => launch[l].result.n = launch[l].status
            /\ launch[l].wait # "exit" => launch[l].result.n \notin 0..MaxExit
            /\ launch[l].result.n = 0 <=>
                  (launch[l].wait = "exit" /\ launch[l].status = 0)

AllIgnored == [s \in Sigs |-> "ignore"]

\* C20: the steps of a launch come in one order: the parent group is
\* recorded before the signals are ignored; the child is started, in a group
\* of its own whose id is its pid, while they are ignored; the first
\* terminal request is the grant, made after the start and before the wait;
\* the second is the restore, made after the wait; both are made with the
\* three signals ignored; and the signals are reset only after the restore.
C20_StepOrder ==
    [][\A l \in Slots :
        LET f == launch[l]
            g == launch[l]'
        IN /\ (f.phase = "created" /\ g.phase # "created") =>
                /\ g.phase = "ignored"
                /\ f.shellPgid = ShellPgid
                /\ sig' = AllIgnored
           /\ (f.phase = "ignored" /\ g.phase = "started") =>
                /\ sig = AllIgnored /\ sig' = AllIgnored
                /\ g.childPgid = ChildPid(l) /\ g.childPgid # g.shellPgid
                /\ g.ioctls = 0
           /\ g.ioctls > f.ioctls =>
                /\ sig = AllIgnored /\ sig' = AllIgnored
                /\ \/ /\ f.phase = "started" /\ g.phase = "granted"
                      /\ f.ioctls = 0 /\ f.wait = "none"
                   \/ /\ f.phase = "waited" /\ g.phase = "restored"
                      /\ f.ioctls = 1 /\ f.wait # "none"
           /\ (f.phase = "granted" /\ g.phase # "granted") =>
                /\ g.phase = "waited" /\ g.wait # "none"
                /\ sig = AllIgnored /\ sig' = AllIgnored
           /\ (f.start = "ok" /\ f.phase # "returned" /\ g.phase = "returned") =>
                /\ f.phase = "restored" /\ f.ioctls = 2
                /\ sig = AllIgnored
                /\ sig' = [s \in Sigs |-> "default"]]_vars

C20_Witness ==
    \E l \in Slots :
        /\ launch[l].phase = "restored"
        /\ launch[l].start = "ok"
        /\ launch[l].ioctls = 2
        /\ launch[l].sigBefore = [s \in Sigs |-> "default"]
        /\ sig = AllIgnored

(***************************************************************************)
(* The statement interpreter: stopOnError and the order of the stages.     *)
(***************************************************************************)
\* the value exec returned is a failure that process goes on from: its exit
\* code is not zero (the type assertion of the last revision has passed)
StageFailed(l) ==
    /\ shPc = "exec" /\ Returned(l)
    /\ ~Panics(variant, launch[l].result)
    /\ ExitCode(variant, launch[l].result) # 0

\* C21: stopOnError is decided per statement from that statement's own
\* Operator: after a non-zero exit code of a stage of a statement whose
\* Operator is ";" or empty, process goes on to the next stage or statement
\* whatever the operators of the other statements are; after a non-zero exit
\* code of a stage of a statement followed by "&&", process returns and the
\* later stages of the same statement are not run.
C21_StopOnErrorPerStatement ==
    [][\A l \in Slots :
        /\ (StageFailed(l) /\ cmd.Statements[si].Operator \in {";", ""})
            => (/\ shPc' = "process"
                /\ <<si', pi'>> =
                       IF pi < Len(cmd.Statements[si].Pipelines)
                       THEN <<si, pi + 1>> ELSE <<si + 1, 1>>
                /\ ret' = ret /\ ran' = ran /\ cmd' = cmd)
        /\ (StageFailed(l) /\ cmd.Statements[si].Operator = "&&")
            => (/\ shPc' = "processed"
                /\ ret'.alive /\ ret'.code # 0
                /\ ran' = ran)]_vars

\* in "a ; b && c" the stage a has failed and b is running
C21_Witness ==
    /\ shPc = "exec" /\ ran = <<(<<1, 1>>), (<<2, 1>>)>>
    /\ Len(cmd.Statements) = 3
    /\ cmd.Statements[1].Operator = ";" /\ cmd.Statements[2].Operator = "&&"
    /\ lastVal.kind = "int" /\ lastVal.n # 0

\* p comes before q in the order of the AST
PosBefore(p, q) == p[1] < q[1] \/ (p[1] = q[1] /\ p[2] < q[2])

\* the stages run so far are the first stages of the Command, in AST order
InAstOrder(c, r) ==
    \A k \in 1..Len(r) :
        /\ r[k] \in StagePositions(c)
        /\ Cardinality({q \in StagePositions(c) : PosBefore(q, r[k])}) = k - 1

NoLaunchInFlight == \A l \in Slots : launch[l].phase = "none"

\* C22: stages are executed one at a time in AST order: a stage is started
\* only when no earlier stage is still running, the stages started are the
\* first stages of the line in the order of the AST, and Shell.Run is back at
\* its prompt, where it reads the next line, only from a process that has
\* returned, with no stage running.
C22_OneStageAtATime ==
    [][/\ (ran' # ran /\ ran' # <<>>)
            => (/\ NoLaunchInFlight
                /\ Len(ran') = Len(ran) + 1
                /\ InAstOrder(cmd', ran'))
       /\ (cmd' # cmd /\ cmd' # NoCmd)
            => (shPc = "prompt" /\ ran = <<>> /\ NoLaunchInFlight)
       /\ (shPc' = "prompt" /\ shPc # "prompt")
            => (shPc = "processed" /\ NoLaunchInFlight)]_vars

\* the stage after a two-stage statement is running: the two stages of the
\* statement have returned
C22_Witness ==
    /\ shPc = "exec" /\ Len(ran) = 3 /\ ran[2] = <<1, 2>>
    /\ \E l \in Slots : launch[l].phase = "granted"

(***************************************************************************)
(* The event code: subscribers.                                            *)
(***************************************************************************)
\* C23 (as claimed): for one object and event type, setSubscriber with a
\* non-nil listener leaves exactly that listener, addSubscriber with a
\* non-nil listener appends it to the listeners there, and either call with
\* a nil listener removes the event type: the lookup returns nil.
C23_SetAddRemove ==
    [][LET c == subCall'
           before == subscribers[c.o][c.t]
           after == subscribers'[c.o][c.t]
       IN /\ (c.op = "set" /\ c.l # NilListener) => after = Listeners(<<c.l>>)
          /\ (c.op = "add" /\ c.l # NilListener)
                => after = Listeners(Append(before.ls, c.l))
          /\ (c.op \in {"set", "add"} /\ c.l = NilListener)
                => after = NoListeners]_vars

(***************************************************************************)
(* The event loop: Start and Stop.                                         *)
(***************************************************************************)
\* the goroutine is inside Start, before its deferred function: in the
\* select loop, the drain loop or the loop over the stop functions
InLoop(g) == starter[g].pc \in {"select", "sending", "drain", "stops"}

\* the goroutine has run the loop of Start to its end
LoopEnded(g) == starter[g].pc \in {"deferOnce", "returned"}

\* C24 (as claimed): Start and Stop are safe to repeat in any interleaving:
\* a Start that finds the loop started returns at once, a Stop that finds
\* the loop not started returns at once, and no Stop call panics on closing
\* a channel or is left blocked for ever.
C24_StartStopSafe ==
    [][/\ panicked' = "none"
       /\ \A s \in Stoppers : stopper[s]'.pc # "blockedNil"
       /\ \A g \in Starters :
            (starter[g].pc = "spawned" /\ starter[g]'.pc # "spawned"
                /\ globalEventStopOnce # 0) => starter[g]'.pc = "early"
       /\ \A s \in Stoppers :
            (stopper[s].pc = "idle" /\ stopper[s]'.pc # "idle"
                /\ globalEventStopOnce = 0) => stopper[s]'.pc = "notStarted"]_vars

\* how often x occurs in seq
Occurrences(seq, x) == Cardinality({i \in 1..Len(seq) : seq[i] = x})

\* where x (occurring once) is in seq
IndexOf(seq, x) == CHOOSE i \in 1..Len(seq) : seq[i] = x

\* C25: when Stop returns on a started loop, the loop has left its select
\* loop and Start is at its end, every function that was still in the events
\* channel when the loop left the select loop has been run, and every stop
\* function registered by then has been called exactly once, a later
\* registered one before an earlier registered one.
C25_StopReturnsAfterShutdown ==
    \A s \in Stoppers :
        stopper[s].pc = "done" =>
            /\ \A g \in Starters : ~InLoop(g)
            /\ \E g \in Starters :
                /\ LoopEnded(g)
                /\ \A k \in 1..Len(starter[g].left) :
                        Occurrences(log, starter[g].left[k]) = 1
                /\ \A i \in 1..starter[g].regs : Occurrences(stopLog, i) = 1
                /\ \A i, j \in 1..starter[g].regs :
                        i < j => IndexOf(stopLog, j) < IndexOf(stopLog, i)
            /\ \A i \in 1..MaxStopFns : Occurrences(stopLog, i) <= 1

\* Stop has returned after a shutdown that found two functions queued and
\* called two stop functions
C25_Witness ==
    \E s \in Stoppers, g \in Starters :
        /\ stopper[s].pc = "done" /\ starter[g].regs = 2
        /\ Len(starter[g].left) = 2
        /\ Len(stopLog) = 2

(***************************************************************************)
(* Dispatch from inside a listener.                                        *)
(***************************************************************************)
\* the loop goroutine is inside publish, at a send on the full events
\* channel: only the loop receives from the channel, so the send never ends
LoopBlockedInPublish(g) ==
    starter[g].pc = "sending" /\ Len(events) >= EventsCap

\* C26 (as claimed): a dispatch made from inside a listener running on the
\* loop returns, whatever the number of listeners and of nested dispatches:
\* the loop goroutine is never left at a send it cannot finish, and no
\* listener is invoked for a dispatch that did not find it.
C26_NestedDispatchReturns ==
    /\ \A g \in Starters : ~LoopBlockedInPublish(g)
    /\ \A j \in 1..Len(log) :
          log[j].k = "call" =>
              /\ log[j].b \in 1..Len(dispatched)
              /\ \E i \in 1..Len(dispatched[log[j].b]) :
                    dispatched[log[j].b][i] = log[j].a

(***************************************************************************)
(* Timers.                                                                 *)
(***************************************************************************)
\* C27 (as claimed): the callback of a timer on which ClearTimeout was
\* called before its delay had elapsed is never invoked; no callback is
\* invoked twice; and a ClearTimeout on an object that is not a timer puts
\* nothing on the events channel.
C27_ClearedTimerNeverFires ==
    /\ \A t \in Timers : timers[t].cleared => timers[t].fired = 0
    /\ \A t \in Timers : timers[t].fired <= 1
    /\ \A j \in 1..Len(events) : events[j].k = "cancel" => events[j].a \in Timers

(***************************************************************************)
(* The mount table.                                                        *)
(***************************************************************************)
\* the root of the mount filesystem: "." in MountFS, "/" in FS
IsRoot(point) == point = <<".">> \/ point = <<"/">>

\* anc is a path-ancestor of point: the root is one of every other path,
\* any other path of the paths below it
PathAncestor(anc, point) ==
    /\ anc # point
    /\ IsRoot(anc) \/ HasPrefix(point, anc \o <<"/">>)

\* no two entries have the same mount point
DistinctPoints(table) ==
    \A e1, e2 \in table : e1[1] = e2[1] => e1 = e2

\* a mount at point would give the table two equal mount points, or two of
\* which one, not the root, is an ancestor of the other
WouldBreak(table, point) ==
    \E q \in Points(table) :
        \/ q = point
        \/ ~IsRoot(q) /\ PathAncestor(q, point)
        \/ ~IsRoot(point) /\ PathAncestor(point, q)

\* what the claim says of the errors: a refused call leaves the table as it
\* was; Mount with a nil filesystem returns ErrInvalid; Mount of a point that
\* would break the table returns ErrExist; Unmount of an absent point returns
\* ErrNotExist
MountErrors ==
    [][/\ mountCall'.ret # "nil" => mounts' = mounts
       /\ (mountCall'.op = "Mount" /\ mountCall'.fs = "nil")
              => mountCall'.ret = "ErrInvalid"
       /\ (mountCall'.op = "Mount" /\ mountCall'.fs # "nil"
              /\ WouldBreak(mounts, mountCall'.point))
              => mountCall'.ret = "ErrExist"
       /\ (mountCall'.op = "Unmount" /\ mountCall'.point \notin Points(mounts))
              => mountCall'.ret = "ErrNotExist"]_vars

\* C28 (as claimed): no two mount points are equal and none is a
\* path-ancestor of another, the root mount "/" of FS excepted.
C28_AsClaimed ==
    /\ DistinctPoints(mounts)
    /\ \A p, q \in Points(mounts) :
          PathAncestor(p, q) => (fsType = "FS" /\ p = <<"/">>)

\* the mount points are distinct and none is a path-ancestor of another, the
\* root mount excepted in either filesystem
NoShadowing ==
    /\ DistinctPoints(mounts)
    /\ \A p, q \in Points(mounts) : PathAncestor(p, q) => IsRoot(p)

\* C28 (amended): after any sequence of Mount and Unmount calls no two mount
\* points are equal and none is a path-ancestor of another, the root mount
\* excepted ("/" of FS and "." of MountFS); a Mount that would break this or
\* has a nil filesystem returns ErrExist or ErrInvalid and leaves the table
\* unchanged, and Unmount of an absent mount point returns ErrNotExist and
\* leaves it unchanged.
C28_MountTableSound == [][NoShadowing /\ NoShadowing']_vars /\ MountErrors

\* C28 witness: a Mount under an existing mount point was refused with
\* ErrExist, in a table that also holds the root mount
C28_Witness ==
    /\ mountCall.op = "Mount" /\ mountCall.ret = "ErrExist"
    /\ \E q \in Points(mounts) : ~IsRoot(q) /\ PathAncestor(q, mountCall.point)
    /\ \E q \in Points(mounts) : IsRoot(q)

(***************************************************************************)
(* Run: shutdown hooks and the loop goroutine.                             *)
(***************************************************************************)
\* Run has returned
RunReturned == runner.pc = "returned"

\* C29 (as claimed): the shutdown hooks registered during Run are each
\* called exactly once by the time Run has returned, none before the program
\* has finished, a later registered one before an earlier registered one,
\* however the program ended.
C29_HooksOnceInReverse ==
    /\ hookLog # <<>> => (runner.prog # "none" \/ runner.err = "compile")
    /\ \A i, j \in 1..Len(hookLog) : i < j => hookLog[i] > hookLog[j]
    /\ RunReturned =>
          \A h \in 1..Len(shutdownHooks) : Occurrences(hookLog, h) = 1

\* C30 (as claimed): once Run of src/engine.go has returned, the goroutine
\* of `go eventLoop.Start()` is not in its loop, in every interleaving and
\* also after a compile error; and while RunProgram waits for the program
\* the loop has not ended.
C30_LoopEndedWhenRunReturns ==
    /\ (RunReturned /\ runner.kind = "own") => ~InLoop(1)
    /\ (runner.pc = "wgWait" /\ runner.prog = "none") =>
          starter[1].pc \in {"spawned", "select"}

====
